---- MODULE Spec2Model ----
(***************************************************************************)
(* Model of the self-upgrade subsystem (UpgradeManager) of the workforce   *)
(* monitoring agent: the upgrade state machine driven by the caller thread *)
(* and by the auto-update thread, the temp artifact, the backup copy and   *)
(* the running executable.  The caller thread makes the public calls one   *)
(* after the other; the auto-update thread runs autoUpdateCheckLoop.  Each *)
(* updateStatus of a call is a step of its own, so that the status writes  *)
(* of the two threads interleave as they can in the program.               *)
(*                                                                         *)
(* Strings that the code compares or concatenates are modelled as tuples   *)
(* (the empty string is << >>); file contents are sequences of blocks.     *)
(***************************************************************************)
EXTENDS Integers, Sequences, FiniteSets, TLC

\* ------------------------------------------------------------------ bounds
\* number of public calls the caller thread makes
MaxCallerOps == 4
\* number of caller calls and auto-update checks, counted together, up to
\* which a further call or check is made while the auto-update thread is alive
MaxOpsWithAuto == 4
\* number of checkForUpdates calls the auto-update loop makes
MaxAutoChecks == 2

\* ------------------------------------------------------------ VersionInfo
CURRENT_VERSION ==
    [major |-> 1, minor |-> 0, patch |-> 0, build |-> "dev",
     release_date |-> "2025-01-06"]

\* versions the update server can publish; the first one is not newer than
\* CURRENT_VERSION
RemoteVersions ==
    { [major |-> 1, minor |-> 0, patch |-> 0, build |-> "", release_date |-> ""],
      [major |-> 1, minor |-> 0, patch |-> 1, build |-> "", release_date |-> ""],
      [major |-> 1, minor |-> 0, patch |-> 2, build |-> "rc", release_date |-> ""] }

\* mutant: versions equal in (major, minor, patch) are ordered by build tag
VersionLess_BuildBreaksTies(a, b) ==
    IF a.major # b.major THEN a.major < b.major
    ELSE IF a.minor # b.minor THEN a.minor < b.minor
    ELSE IF a.patch # b.patch THEN a.patch < b.patch
    ELSE a.build = "" /\ b.build # ""

\* VersionInfo::operator<
VersionLess(a, b) ==
    IF a.major # b.major THEN a.major < b.major
    ELSE IF a.minor # b.minor THEN a.minor < b.minor
    ELSE a.patch < b.patch

\* VersionInfo::operator>
VersionGreater(a, b) == VersionLess(b, a)

\* VersionInfo::operator==
VersionEq(a, b) ==
    a.major = b.major /\ a.minor = b.minor /\ a.patch = b.patch

\* VersionInfo::operator!=
VersionNe(a, b) == ~VersionEq(a, b)

\* VersionInfo::operator<=
VersionLe(a, b) == VersionLess(a, b) \/ VersionEq(a, b)

\* VersionInfo::operator>=
VersionGe(a, b) == VersionGreater(a, b) \/ VersionEq(a, b)

\* VersionInfo::toString: "major.minor.patch" and "-build" when a build tag
\* is present; the release date is not part of it
toString(v) ==
    <<v.major, v.minor, v.patch>> \o (IF v.build = "" THEN << >> ELSE <<v.build>>)

\* temp_directory_ + "/update_" + version.toString() + ".tar.gz"
DownloadPath(v) == <<"update">> \o toString(v)

\* values the never-initialized available_update_.version can hold before
\* the first successful check: its integers are indeterminate, its strings
\* are empty
IndeterminateVersions ==
    { [major |-> 0, minor |-> 0, patch |-> 0, build |-> "", release_date |-> ""],
      [major |-> 1, minor |-> 0, patch |-> 1, build |-> "", release_date |-> ""] }

Paths == { DownloadPath(v) : v \in RemoteVersions \cup IndeterminateVersions }

\* ------------------------------------------------------------ file contents
\* a file is a sequence of blocks: "F*" is a block that fills the 8192-byte
\* read buffer of calculateChecksum, "p*" a shorter last block
FullBlocks == {"F1"}
NoFile == <<"ENOENT">>
EmptyFile == << >>

\* bodies the server can answer a download with (the first is the empty body)
Payloads == { << >>, <<"F1", "p1">> }

\* SHA-256 followed by hex encoding, taken as collision free
Digest(blocks) == <<"sha256">> \o blocks

IsFullBlock(b) == b \in FullBlocks

\* UpgradeManager::calculateChecksum: "" when the file cannot be opened; the
\* loop hashes a block only when file.read filled the whole buffer
calculateChecksum(file) ==
    IF file = NoFile THEN << >>
    ELSE Digest(SelectSeq(file, IsFullBlock))

\* UpgradeManager::verifyUpdateFile
verifyUpdateFile(file, expected_checksum) ==
    calculateChecksum(file) = expected_checksum

\* UpgradeManager::validateUpdateSignature
validateUpdateSignature(file, signature) == signature # ""

\* what downloadFile leaves in the file it opened: the write callback appends
\* the received bytes to the response string, nothing is written to fp
WrittenToFile(response) == EmptyFile

\* ------------------------------------------------------------- descriptors
Checksums == { Digest(p) : p \in Payloads }
Signatures == {"", "good", "bad"}

\* UpdateInfo as far as the upgrade steps read it
Descriptors ==
    [version : RemoteVersions, checksum : Checksums, signature : Signatures]

Threads == {"caller", "auto"}

Status == {"IDLE", "CHECKING", "DOWNLOADING", "VERIFYING", "INSTALLING",
           "SUCCESS", "FAILED", "ROLLBACK"}

VARIABLES
    status_,               \* UpgradeManager::status_
    update_available_,     \* UpgradeManager::update_available_
    available_update_,     \* UpgradeManager::available_update_
    auto_update_running_,  \* UpgradeManager::auto_update_running_
    backup_enabled_,       \* UpgradeManager::backup_enabled_
    cb_registered,         \* update_available_callback_ is non-empty
    files,                 \* temp_directory_: path -> content or NoFile
    exe,                   \* content of /proc/self/exe
    old_file,              \* content of exe_path + ".old"
    backup_file,           \* content of the backup of current_version_
    extracted,             \* temp_directory_/extracted_update
    pc,                    \* position of each thread
    chk,                   \* per thread: descriptor parsed by checkForUpdates
    dl,                    \* locals of downloadUpdate
    ins,                   \* locals of installUpdate
    trail,                 \* statuses reported so far by the caller's running call
    ret,                   \* outcome of the call the caller thread just completed
    dl_verdict,            \* path -> outcome of the latest downloadUpdate
    cb_count,              \* path -> number of update-available callbacks
    ops,                   \* calls made by the caller thread
    checks,                \* checks made by the auto-update loop
    auto_last,             \* status the loop's latest check ended with
    va, vb, vc,            \* three VersionInfo values being compared
    cmp,                   \* results of the comparison operators on them
    cmp_first,             \* the results first obtained for va, vb, vc
    user_profiles_,        \* BehaviorAnalyzer::user_profiles_
    pattern_history_,      \* BehaviorAnalyzer::pattern_history_
    anomaly_callback_,     \* BehaviorAnalyzer::anomaly_callback_ is non-empty
    llm_enabled_,          \* BehaviorAnalyzer::llm_enabled_
    user_contexts_,        \* users in LLMBehaviorAnalyzer::user_contexts_
    recent_activities,     \* recent_activities of each user's context
    supplied,              \* activities handed in for each user so far
    arrivals,              \* patterns appended to pattern_history_ so far
    b_last,                \* latest analyzeActivity or handleLLMInsight call
    b_budget,              \* calls of BehaviorAnalyzer still to be made
    analysis_running_,     \* LLMBehaviorAnalyzer::running_
    real_time_enabled_,    \* LLMBehaviorAnalyzer::real_time_enabled_
    pending_analyses_,     \* LLMBehaviorAnalyzer::pending_analyses_
    overdue,               \* users whose last_analysis is analysis_interval_ old
    insights_history_,     \* LLMBehaviorAnalyzer::insights_history_
    data_mutex_,           \* the thread that holds data_mutex_, or "free"
    analysis_thread_,      \* position and locals of the analysis thread
    main_call,             \* the call the main thread is inside, if any
    policies_,             \* DLPMonitor: the policies, in the order added
    monitored_paths_,      \* restricted paths of every policy ever added
    dlp_running_,          \* DLPMonitor::running_
    dlp_callback_,         \* DLPMonitor::callback_ is set
    dlp_threads,           \* the detached threads, per startMonitoring call
    dlp_last,              \* latest call or happening and the events it gave
    dlp_budget             \* calls and happenings of DLPMonitor still to come

\* the state of UpgradeManager and of its two threads
upgrade_vars ==
    <<status_, update_available_, available_update_, auto_update_running_,
      backup_enabled_, cb_registered, files, exe, old_file, backup_file,
      extracted, pc, chk, dl, ins, trail, ret, dl_verdict, cb_count, ops,
      checks, auto_last>>

\* VersionInfo values compared on their own
version_vars == <<va, vb, vc, cmp, cmp_first>>

\* the analysis thread of LLMBehaviorAnalyzer and what it shares
loop_vars ==
    <<analysis_running_, real_time_enabled_, pending_analyses_, overdue,
      insights_history_, data_mutex_, analysis_thread_, main_call>>

\* the state of BehaviorAnalyzer and of its LLMBehaviorAnalyzer
behavior_vars ==
    <<user_profiles_, pattern_history_, anomaly_callback_, llm_enabled_,
      user_contexts_, recent_activities, supplied, arrivals, b_last,
      b_budget, loop_vars>>

\* the state of DLPMonitor and of its detached threads
dlp_vars ==
    <<policies_, monitored_paths_, dlp_running_, dlp_callback_, dlp_threads,
      dlp_last, dlp_budget>>

\* what no step of UpgradeManager touches
aside == <<version_vars, behavior_vars, dlp_vars>>

vars == <<upgrade_vars, aside>>

NoChk == [version |-> CURRENT_VERSION, checksum |-> << >>, signature |-> ""]
NoDl == [update |-> NoChk, response |-> << >>]
NoRet == [op |-> "none", result |-> "none", why |-> "none", trail |-> << >>,
          rollback |-> FALSE, dl |-> NoDl]
OrigExe == <<"orig">>
CorruptExe == <<"partial">>
NoIns == [archive |-> << >>, exe0 |-> OrigExe, backup_done |-> FALSE]

\* UpgradeManager::UpgradeManager; available_update_ has no initializer, so
\* its integers are indeterminate and its strings empty
UpgradeInit ==
    /\ status_ = "IDLE"
    /\ update_available_ = FALSE
    /\ \E v \in IndeterminateVersions :
          available_update_ = [version |-> v, checksum |-> << >>, signature |-> ""]
    /\ auto_update_running_ = FALSE
    /\ backup_enabled_ = TRUE
    /\ cb_registered = FALSE
    /\ files = [p \in Paths |-> NoFile]
    /\ exe = OrigExe
    /\ old_file = NoFile
    /\ backup_file = NoFile
    /\ extracted = <<"none">>
    /\ pc = [t \in Threads |-> IF t = "caller" THEN "idle" ELSE "off"]
    /\ chk = [t \in Threads |-> NoChk]
    /\ dl = NoDl
    /\ ins = NoIns
    /\ trail = << >>
    /\ ret = NoRet
    /\ dl_verdict = [p \in Paths |-> "none"]
    /\ cb_count = [p \in Paths |-> 0]
    /\ ops = 0
    /\ checks = 0
    /\ auto_last = "none"

\* no comparison has been made
NoCmp == [done |-> FALSE, lt |-> FALSE, gt |-> FALSE, eq |-> FALSE,
          ne |-> FALSE, le |-> FALSE, ge |-> FALSE, bc_lt |-> FALSE,
          ac_lt |-> FALSE]

\* no VersionInfo is being compared on its own
VersionIdle ==
    /\ va = CURRENT_VERSION /\ vb = CURRENT_VERSION /\ vc = CURRENT_VERSION
    /\ cmp = NoCmp /\ cmp_first = NoCmp

\* ------------------------------------------------------------ call helpers
\* the caller thread enters a public method
CallerCalls ==
    /\ pc["caller"] = "idle"
    /\ ops < MaxCallerOps
    /\ pc["auto"] # "off" => ops + checks < MaxOpsWithAuto
    /\ ops' = ops + 1

\* UpgradeManager::updateStatus on thread t, the call going on
updateStatus(t, s) ==
    /\ status_' = s
    /\ trail' = IF t = "caller" THEN Append(trail, s) ELSE trail

\* updateStatus(s) followed by the return of the public method
ReportAndReturn(t, s, op, result, why, rb) ==
    /\ status_' = s
    /\ pc' = [pc EXCEPT ![t] = IF t = "caller" THEN "idle" ELSE "sleep"]
    /\ trail' = IF t = "caller" THEN << >> ELSE trail
    /\ ret' = IF t = "caller"
              THEN [op |-> op, result |-> result, why |-> why,
                    trail |-> Append(trail, s), rollback |-> rb, dl |-> dl]
              ELSE ret

\* ------------------------------------------------------- checkForUpdates
\* variables no step of checkForUpdates touches
chk_frame == <<auto_update_running_, backup_enabled_, cb_registered, files,
               exe, old_file, backup_file, extracted, dl, ins, dl_verdict, aside>>

\* mutant: the loop gives up after a check that ended in Failed
LoopCondition_UntilFailure(running, last) == running /\ last # "FAILED"

\* line 495: while (auto_update_running_)
LoopCondition(running, last) == running

\* the status the loop's latest check ended with, after a step of thread t
AutoLastAfter(t, s) ==
    auto_last' = IF t = "auto" THEN s ELSE auto_last

\* line 98: updateStatus(CHECKING)
CheckBegin(t) ==
    /\ \/ t = "caller" /\ CallerCalls /\ ret' = NoRet /\ checks' = checks
       \/ t = "auto" /\ pc[t] = "loop"
          /\ LoopCondition(auto_update_running_, auto_last)
          /\ checks < MaxAutoChecks
          /\ ops + checks < MaxOpsWithAuto
          /\ checks' = checks + 1 /\ UNCHANGED <<ops, ret>>
    /\ status_' = "CHECKING"
    /\ trail' = IF t = "caller" THEN <<"CHECKING">> ELSE trail
    /\ pc' = [pc EXCEPT ![t] = "chk_fetch"]
    /\ UNCHANGED <<update_available_, available_update_, chk, cb_count,
                   auto_last>>
    /\ UNCHANGED chk_frame

\* lines 101-117 and 132-145: fetch and parse the descriptor, compare it with
\* current_version_, store the newer version
CheckFetch(t) ==
    /\ pc[t] = "chk_fetch"
    /\ \/ \* empty response, or a parse/type error while reading the version
          /\ ReportAndReturn(t, "FAILED", "checkForUpdates", "false",
                             "no_descriptor", FALSE)
          /\ AutoLastAfter(t, "FAILED")
          /\ UNCHANGED <<available_update_, chk>>
       \/ \E d \in Descriptors :
            IF VersionGreater(d.version, CURRENT_VERSION)
            THEN /\ available_update_' = [available_update_ EXCEPT !.version = d.version]
                 /\ chk' = [chk EXCEPT ![t] = d]
                 /\ pc' = [pc EXCEPT ![t] = "chk_store"]
                 /\ UNCHANGED <<status_, trail, ret, auto_last>>
            ELSE /\ ReportAndReturn(t, "IDLE", "checkForUpdates", "false",
                                    "up_to_date", FALSE)
                 /\ AutoLastAfter(t, "IDLE")
                 /\ UNCHANGED <<available_update_, chk>>
    /\ UNCHANGED <<update_available_, cb_count, ops, checks>>
    /\ UNCHANGED chk_frame

\* mutant: a version already announced is not announced again
FireUpdateAvailable_Deduplicated(counts, registered, update) ==
    IF registered /\ counts[DownloadPath(update.version)] = 0
    THEN [counts EXCEPT ![DownloadPath(update.version)] = @ + 1]
    ELSE counts

\* lines 127-129: the update-available callback runs when one is registered;
\* counts is the number of times it ran per version it was handed
FireUpdateAvailable(counts, registered, update) ==
    IF registered
    THEN [counts EXCEPT ![DownloadPath(update.version)] = @ + 1]
    ELSE counts

\* lines 118-131 and 139-141: store the rest of the descriptor, report IDLE
\* and call the update-available callback; a descriptor without download_url
\* or checksum throws json::type_error after the version was stored
CheckStore(t) ==
    /\ pc[t] = "chk_store"
    /\ \/ /\ available_update_' = [available_update_ EXCEPT
                                      !.checksum = chk[t].checksum,
                                      !.signature = chk[t].signature]
          /\ update_available_' = TRUE
          /\ cb_count' = FireUpdateAvailable(cb_count, cb_registered,
                                             available_update_')
          /\ ReportAndReturn(t, "IDLE", "checkForUpdates", "true",
                             "update_available", FALSE)
          /\ AutoLastAfter(t, "IDLE")
       \/ /\ ReportAndReturn(t, "FAILED", "checkForUpdates", "false",
                             "missing_fields", FALSE)
          /\ AutoLastAfter(t, "FAILED")
          /\ UNCHANGED <<available_update_, update_available_, cb_count>>
    /\ chk' = [chk EXCEPT ![t] = NoChk]
    /\ UNCHANGED <<ops, checks>>
    /\ UNCHANGED chk_frame

\* ------------------------------------------------------- downloadUpdate
\* variables no step of downloadUpdate touches
dl_frame == <<update_available_, available_update_, auto_update_running_,
              backup_enabled_, cb_registered, exe, old_file, backup_file,
              extracted, chk, ins, cb_count, checks, auto_last, aside>>

\* lines 149-151: the caller passes the descriptor it read from
\* getAvailableUpdate(); updateStatus(DOWNLOADING)
DownloadBegin ==
    /\ CallerCalls
    /\ ret' = NoRet
    /\ dl' = [update |-> available_update_, response |-> << >>]
    /\ status_' = "DOWNLOADING"
    /\ trail' = <<"DOWNLOADING">>
    /\ pc' = [pc EXCEPT !["caller"] = "dl_transfer"]
    /\ UNCHANGED <<files, dl_verdict>>
    /\ UNCHANGED dl_frame

\* lines 153-157 with downloadFile (352-413): fopen(output_path, "wb")
\* truncates the file, curl_easy_perform hands the body to writeCallback;
\* an empty result ends the call with "Download failed"
DownloadTransfer ==
    /\ pc["caller"] = "dl_transfer"
    /\ LET path == DownloadPath(dl.update.version)
           Fail == /\ ReportAndReturn("caller", "FAILED", "downloadUpdate",
                                      "false", "download_failed", FALSE)
                   /\ dl_verdict' = [dl_verdict EXCEPT ![path] = "transfer_failed"]
                   /\ dl' = NoDl
       IN
       \/ \* curl_easy_init or fopen failed: nothing was created
          /\ Fail
          /\ UNCHANGED files
       \/ \* the transfer failed (res != CURLE_OK): the opened file stays
          /\ files' = [files EXCEPT ![path] = EmptyFile]
          /\ Fail
       \/ \E body \in Payloads :
            /\ files' = [files EXCEPT ![path] = WrittenToFile(body)]
            /\ IF body = << >>
               THEN Fail
               ELSE /\ dl' = [dl EXCEPT !.response = body]
                    /\ pc' = [pc EXCEPT !["caller"] = "dl_verify"]
                    /\ UNCHANGED <<status_, trail, ret, dl_verdict>>
    /\ UNCHANGED ops
    /\ UNCHANGED dl_frame

\* mutant: the temp file is left behind
AfterVerifyFailure_Kept(fs, path) == fs

\* what downloadUpdate does with the temp file once verification failed
\* (fs::remove, lines 162 and 169)
AfterVerifyFailure(fs, path) == [fs EXCEPT ![path] = NoFile]

\* lines 159-175: checksum, then the signature when one is supplied
DownloadVerify ==
    /\ pc["caller"] = "dl_verify"
    /\ LET path == DownloadPath(dl.update.version) IN
       IF ~verifyUpdateFile(files[path], dl.update.checksum)
       THEN /\ ReportAndReturn("caller", "FAILED", "downloadUpdate", "false",
                               "checksum_mismatch", FALSE)
            /\ files' = AfterVerifyFailure(files, path)
            /\ dl_verdict' = [dl_verdict EXCEPT ![path] = "integrity_failed"]
       ELSE IF dl.update.signature # ""
               /\ ~validateUpdateSignature(files[path], dl.update.signature)
       THEN /\ ReportAndReturn("caller", "FAILED", "downloadUpdate", "false",
                               "signature_invalid", FALSE)
            /\ files' = AfterVerifyFailure(files, path)
            /\ dl_verdict' = [dl_verdict EXCEPT ![path] = "integrity_failed"]
       ELSE /\ ReportAndReturn("caller", "IDLE", "downloadUpdate", "true",
                               "verified", FALSE)
            /\ dl_verdict' = [dl_verdict EXCEPT ![path] = "verified"]
            /\ UNCHANGED files
    /\ dl' = NoDl
    /\ UNCHANGED ops
    /\ UNCHANGED dl_frame

\* --------------------------------------------- installUpdate, rollbackUpdate
\* variables no step of installUpdate or rollbackUpdate touches
ins_frame == <<update_available_, available_update_, auto_update_running_,
               backup_enabled_, cb_registered, chk, dl, dl_verdict, cb_count,
               checks, auto_last, aside>>

\* lines 178-181: updateStatus(INSTALLING); the archive path is built from
\* available_update_.version
InstallBegin ==
    /\ CallerCalls
    /\ ret' = NoRet
    /\ status_' = "INSTALLING"
    /\ trail' = <<"INSTALLING">>
    /\ ins' = [NoIns EXCEPT !.archive = DownloadPath(available_update_.version),
                            !.exe0 = exe]
    /\ pc' = [pc EXCEPT !["caller"] = "ins_backup"]
    /\ UNCHANGED <<files, exe, old_file, backup_file, extracted>>
    /\ UNCHANGED ins_frame

\* mutant: the result of the backup is ignored
ProceedsAfterBackup_Ignored(enabled, backed_up) == TRUE

\* whether installUpdate goes on to the extraction after the backup step
\* (line 184: it stops when backups are enabled and the backup failed)
ProceedsAfterBackup(enabled, backed_up) == ~enabled \/ backed_up

\* lines 183-187 with backupCurrentVersion (276-292): fs::copy of the running
\* executable to the backup path, false on readlink failure or exception
InstallBackup ==
    /\ pc["caller"] = "ins_backup"
    /\ \E backed_up \in (IF backup_enabled_ THEN BOOLEAN ELSE {FALSE}) :
         /\ backup_file' = IF backed_up THEN exe ELSE backup_file
         /\ IF ProceedsAfterBackup(backup_enabled_, backed_up)
            THEN /\ ins' = [ins EXCEPT !.backup_done = backed_up]
                 /\ pc' = [pc EXCEPT !["caller"] = "ins_extract"]
                 /\ UNCHANGED <<status_, trail, ret>>
            ELSE /\ ReportAndReturn("caller", "FAILED", "installUpdate", "false",
                                    "backup_failed", FALSE)
                 /\ ins' = NoIns
    /\ UNCHANGED <<files, exe, old_file, extracted, ops>>
    /\ UNCHANGED ins_frame

\* results of extractUpdate (449-454): tar fails when the archive is missing;
\* otherwise it fails, or leaves a tree with or without workforce_agent
ExtractResults(archive_file, archive) ==
    IF archive_file = NoFile
    THEN {<<"failed">>}
    ELSE {<<"failed">>, <<"noexe">>, archive}

\* lines 189-207: extract, then look for the new executable
InstallExtract ==
    /\ pc["caller"] = "ins_extract"
    /\ \E r \in ExtractResults(files[ins.archive], ins.archive) :
         IF r = <<"failed">>
         THEN /\ ReportAndReturn("caller", "FAILED", "installUpdate", "false",
                                 "extract_failed", FALSE)
              /\ ins' = NoIns
              /\ UNCHANGED extracted
         ELSE IF r = <<"noexe">>
         THEN /\ ReportAndReturn("caller", "FAILED", "installUpdate", "false",
                                 "exe_not_found", FALSE)
              /\ ins' = NoIns
              /\ extracted' = r
         ELSE /\ extracted' = r
              /\ pc' = [pc EXCEPT !["caller"] = "ins_replace"]
              /\ UNCHANGED <<status_, trail, ret, ins>>
    /\ UNCHANGED <<files, exe, old_file, backup_file, ops>>
    /\ UNCHANGED ins_frame

\* lines 209-221 with replaceExecutable (456-481)
InstallReplace ==
    /\ pc["caller"] = "ins_replace"
    /\ \/ \* the copy succeeded: cleanup and SUCCESS
          /\ old_file' = exe
          /\ exe' = extracted
          /\ extracted' = <<"none">>
          /\ files' = [files EXCEPT ![ins.archive] = NoFile]
          /\ ReportAndReturn("caller", "SUCCESS", "installUpdate", "true",
                             "installed", FALSE)
          /\ ins' = NoIns
       \/ \* readlink failed (old_file untouched), or the copy failed and the
          \* catch block restored the .old copy: FAILED, then rollbackUpdate
          /\ \E restored \in BOOLEAN :
                old_file' = IF restored THEN exe ELSE old_file
          /\ updateStatus("caller", "FAILED")
          /\ pc' = [pc EXCEPT !["caller"] = "ins_rollback"]
          /\ UNCHANGED <<exe, extracted, files, ret, ins>>
       \/ \* an exception leaves replaceExecutable: the copy to .old threw
          \* (line 468), or the restoring copy in the catch block threw
          \* (line 478) with the executable partly overwritten
          /\ \E in_catch \in BOOLEAN :
                /\ old_file' = IF in_catch THEN exe ELSE NoFile
                /\ exe' = IF in_catch THEN CorruptExe ELSE exe
          /\ pc' = [pc EXCEPT !["caller"] = "idle"]
          /\ ret' = [op |-> "installUpdate", result |-> "threw",
                     why |-> "replace_threw", trail |-> trail,
                     rollback |-> FALSE, dl |-> dl]
          /\ trail' = << >>
          /\ ins' = NoIns
          /\ UNCHANGED <<status_, extracted, files>>
    /\ UNCHANGED <<backup_file, ops>>
    /\ UNCHANGED ins_frame

\* line 225: updateStatus(ROLLBACK), called by the caller thread or from
\* installUpdate (line 212)
RollbackBegin ==
    /\ \/ /\ CallerCalls
          /\ ret' = NoRet
          /\ trail' = <<"ROLLBACK">>
          /\ pc' = [pc EXCEPT !["caller"] = "rb_restore"]
       \/ /\ pc["caller"] = "ins_rollback"
          /\ trail' = Append(trail, "ROLLBACK")
          /\ pc' = [pc EXCEPT !["caller"] = "ins_rb_restore"]
          /\ UNCHANGED <<ops, ret>>
    /\ status_' = "ROLLBACK"
    /\ UNCHANGED <<files, exe, old_file, backup_file, extracted, ins>>
    /\ UNCHANGED ins_frame

\* lines 227-233 with restoreBackup (294-312); installUpdate returns false
\* right after its rollbackUpdate call
RollbackRestore ==
    /\ pc["caller"] \in {"rb_restore", "ins_rb_restore"}
    /\ LET nested == pc["caller"] = "ins_rb_restore"
           op == IF nested THEN "installUpdate" ELSE "rollbackUpdate"
       IN
       \E restored \in (IF backup_enabled_ /\ backup_file # NoFile
                        THEN BOOLEAN ELSE {FALSE}) :
         /\ exe' = IF restored THEN backup_file ELSE exe
         /\ IF restored
            THEN ReportAndReturn("caller", "IDLE", op,
                                 IF nested THEN "false" ELSE "true",
                                 IF nested THEN "replace_failed" ELSE "rolled_back",
                                 nested)
            ELSE ReportAndReturn("caller", "FAILED", op, "false",
                                 IF nested THEN "replace_failed" ELSE "rollback_failed",
                                 nested)
    /\ ins' = NoIns
    /\ UNCHANGED <<files, old_file, backup_file, extracted, ops>>
    /\ UNCHANGED ins_frame

\* ------------------------------------------------------------ configuration
\* the caller's record of a void method that returned
VoidRet(op) == [NoRet EXCEPT !.op = op, !.result = "void"]

\* UpgradeManager::setBackupEnabled
SetBackupEnabled ==
    /\ CallerCalls
    /\ \E enabled \in BOOLEAN : backup_enabled_' = enabled
    /\ ret' = VoidRet("setBackupEnabled")
    /\ UNCHANGED <<status_, update_available_, available_update_,
                   auto_update_running_, cb_registered, files, exe, old_file,
                   backup_file, extracted, pc, chk, dl, ins, trail,
                   dl_verdict, cb_count, checks, auto_last, aside>>

\* UpgradeManager::setUpdateAvailableCallback
SetUpdateAvailableCallback ==
    /\ CallerCalls
    /\ cb_registered' = TRUE
    /\ ret' = VoidRet("setUpdateAvailableCallback")
    /\ UNCHANGED <<status_, update_available_, available_update_,
                   auto_update_running_, backup_enabled_, files, exe, old_file,
                   backup_file, extracted, pc, chk, dl, ins, trail,
                   dl_verdict, cb_count, checks, auto_last, aside>>

\* ------------------------------------------------------ auto-update thread
\* variables the thread management leaves alone
thread_frame == <<status_, update_available_, available_update_, backup_enabled_,
                  cb_registered, files, exe, old_file, backup_file, extracted,
                  chk, dl, ins, trail, dl_verdict, cb_count, checks,
                  auto_last, aside>>

\* UpgradeManager::startAutoUpdateCheck
StartAutoUpdateCheck ==
    /\ CallerCalls
    /\ ops + checks < MaxOpsWithAuto
    /\ IF auto_update_running_
       THEN UNCHANGED <<auto_update_running_, pc>>
       ELSE /\ auto_update_running_' = TRUE
            /\ pc' = [pc EXCEPT !["auto"] = "loop"]
    /\ ret' = VoidRet("startAutoUpdateCheck")
    /\ UNCHANGED thread_frame

\* UpgradeManager::stopAutoUpdateCheck: clear the flag, then join
StopAutoUpdateCheck ==
    /\ CallerCalls
    /\ IF auto_update_running_
       THEN /\ auto_update_running_' = FALSE
            /\ pc' = [pc EXCEPT !["caller"] = "join"]
            /\ ret' = NoRet
       ELSE /\ UNCHANGED <<auto_update_running_, pc>>
            /\ ret' = VoidRet("stopAutoUpdateCheck")
    /\ UNCHANGED thread_frame

\* auto_update_thread_.join() returns once the loop has ended
JoinAutoUpdate ==
    /\ pc["caller"] = "join" /\ pc["auto"] = "off"
    /\ pc' = [pc EXCEPT !["caller"] = "idle"]
    /\ ret' = VoidRet("stopAutoUpdateCheck")
    /\ UNCHANGED <<auto_update_running_, ops>>
    /\ UNCHANGED thread_frame

\* UpgradeManager::autoUpdateCheckLoop: sleep_for returns
AutoLoopSleep ==
    /\ pc["auto"] = "sleep"
    /\ pc' = [pc EXCEPT !["auto"] = "loop"]
    /\ UNCHANGED <<auto_update_running_, ops, ret>>
    /\ UNCHANGED thread_frame

\* UpgradeManager::autoUpdateCheckLoop: the loop condition is found false
AutoLoopExit ==
    /\ pc["auto"] = "loop" /\ ~LoopCondition(auto_update_running_, auto_last)
    /\ pc' = [pc EXCEPT !["auto"] = "off"]
    /\ UNCHANGED <<auto_update_running_, ops, ret>>
    /\ UNCHANGED thread_frame

\* ------------------------------------------------------- BehaviorAnalyzer
\* users whose activity is analysed
Users == {"alice", "bob"}

\* pattern_history_.size() > 1000
HISTORY_CAP == 1000

\* ++total_recent > 10
RISK_WINDOW == 10

\* a double is modelled by the fraction <<numerator, denominator>> with a
\* positive denominator; the rounding of double arithmetic is left out
Zero == <<0, 1>>
One == <<1, 1>>
Less(x, y) == x[1] * y[2] < y[1] * x[2]
Same(x, y) == x[1] * y[2] = y[1] * x[2]

\* std::min(a, b): b when b < a, otherwise a
StdMin(a, b) == IF Less(b, a) THEN b ELSE a

\* std::max(a, b): b when a < b, otherwise a
StdMax(a, b) == IF Less(a, b) THEN b ELSE a

PatternTypes == {"normal", "anomalous", "suspicious"}

\* the metrics map handed to analyzeActivity has one key; its value
MetricInputs == {10000}

\* a value of baseline_metrics: << >> is the map without the key, <<lo, hi>>
\* the whole numbers next below and next above the value stored under the
\* key (the moving average is not a whole number, and its digits outgrow
\* the integers, so both roundings are carried along)
NoBaseline == << >>
Exactly(value) == <<value, value>>

\* UserProfile; exists is FALSE for a user with no entry in user_profiles_
NoProfile == [exists |-> FALSE, baseline_metrics |-> NoBaseline,
              recent_patterns |-> << >>, risk_score |-> Zero]

\* UserProfile{user, {}, {}, 0.0}
NewProfile == [exists |-> TRUE, baseline_metrics |-> NoBaseline,
               recent_patterns |-> << >>, risk_score |-> Zero]

NoPattern == [user |-> "", pattern_type |-> "", confidence_score |-> Zero,
              timestamp |-> 0, source |-> ""]

\* alpha * value + (1 - alpha) * baseline[key] with alpha = 0.1, the lower
\* bound rounded down and the upper bound rounded up
MovingAverage(value, baseline) ==
    <<(value + 9 * baseline[1]) \div 10, (value + 9 * baseline[2] + 9) \div 10>>

\* BehaviorAnalyzer::updateBaseline: the first observation of a user creates
\* the profile with the metrics as baseline, a key not yet in the baseline
\* takes the value, a key in it moves towards the value
updateBaseline(profiles, user, metrics) ==
    IF ~profiles[user].exists
    THEN [profiles EXCEPT ![user] =
             [NewProfile EXCEPT !.baseline_metrics = Exactly(metrics)]]
    ELSE [profiles EXCEPT ![user].baseline_metrics =
             IF @ = NoBaseline THEN Exactly(metrics)
             ELSE MovingAverage(metrics, @)]

\* |current_value - baseline_value| / baseline_value > num / den for a
\* baseline value that is not 0
DeviationAbove(current_value, baseline_value, num, den) ==
    LET distance == IF current_value < baseline_value
                    THEN baseline_value - current_value
                    ELSE current_value - baseline_value
    IN baseline_value > 0 /\ den * distance > num * baseline_value

\* BehaviorAnalyzer::isAnomalous with the threshold 0.7 for the one key: the
\* results it can have for the baseline values between the two bounds: the
\* deviation has its extremes at the bounds, is 0 at the current value, is
\* skipped at 0 and is without limit just above 0
isAnomalous(current, baseline) ==
    IF baseline = NoBaseline THEN {FALSE}
    ELSE { DeviationAbove(current, baseline[1], 7, 10),
           DeviationAbove(current, baseline[2], 7, 10) }
         \cup (IF current \in baseline[1] .. baseline[2]
                  \/ 0 \in baseline[1] .. baseline[2]
               THEN {FALSE} ELSE {})
         \cup (IF baseline[1] <= 0 /\ 0 < baseline[2] THEN {TRUE} ELSE {})

\* the number of patterns of type t among the first n of a list
CountOf(patterns, n, t) ==
    Cardinality({ i \in 1 .. n : patterns[i].pattern_type = t })

\* BehaviorAnalyzer::calculateRiskScore: the loop walks recent_patterns from
\* its front and leaves when the pre-incremented counter passes 10, so the
\* counter ends one above the number of patterns counted
calculateRiskScore(profiles, user) ==
    IF ~profiles[user].exists THEN Zero
    ELSE LET patterns == profiles[user].recent_patterns
             counted == IF Len(patterns) > RISK_WINDOW THEN RISK_WINDOW
                        ELSE Len(patterns)
             total_recent == IF Len(patterns) > RISK_WINDOW THEN RISK_WINDOW + 1
                             ELSE Len(patterns)
             suspicious_count == CountOf(patterns, counted, "suspicious")
             anomalous_count == CountOf(patterns, counted, "anomalous")
             risk_score == IF total_recent > 0
                           THEN <<8 * suspicious_count + 4 * anomalous_count,
                                  10 * total_recent>>
                           ELSE Zero
         IN StdMin(risk_score, One)

\* analyzeActivity, lines 480-491
Classify(confidence) ==
    IF Less(<<7, 10>>, confidence) THEN "suspicious"
    ELSE IF Less(<<5, 10>>, confidence) THEN "anomalous"
    ELSE "normal"

\* mutant: the newest pattern is dropped when the history is full
PushBounded_DropNewest(history, pattern) ==
    IF Len(history) >= HISTORY_CAP THEN history ELSE Append(history, pattern)

\* pattern_history_.push_back(pattern); if (size() > 1000) pop_front()
PushBounded(history, pattern) ==
    LET pushed == Append(history, pattern)
    IN IF Len(pushed) > HISTORY_CAP THEN Tail(pushed) ELSE pushed

\* mutant: the callback is handed every pattern
FiresCallback_Always(pattern_type, registered) == registered

\* if (pattern.pattern_type != "normal" && anomaly_callback_)
FiresCallback(pattern_type, registered) ==
    pattern_type # "normal" /\ registered

\* BehaviorAnalyzer::analyzeActivity on st = [profiles, history, clock]: the
\* maps after the call and the pattern it created
analyzeActivity(st, user, metrics) ==
    LET based == updateBaseline(st.profiles, user, metrics)
        confidence == calculateRiskScore(based, user)
        pattern == [user |-> user, pattern_type |-> Classify(confidence),
                    confidence_score |-> confidence,
                    timestamp |-> st.clock + 1, source |-> "native"]
    IN [profiles |-> [based EXCEPT
                         ![user].recent_patterns = Append(@, pattern),
                         ![user].risk_score = confidence],
        history |-> PushBounded(st.history, pattern),
        clock |-> st.clock + 1,
        pattern |-> pattern]

\* BehaviorAnalyzer after construction
Constructed ==
    [profiles |-> [u \in Users |-> NoProfile], history |-> << >>, clock |-> 0,
     pattern |-> NoPattern]

\* BehaviorAnalyzer after n analyzeActivity calls for one user
RECURSIVE NativeRun(_, _)
NativeRun(n, user) ==
    IF n = 0 THEN Constructed
    ELSE analyzeActivity(NativeRun(n - 1, user), user,
                         CHOOSE metrics \in MetricInputs : TRUE)

\* responses of the language model: free text, and JSON objects with their
\* risk_level, confidence_score and recommendations keys
LLMResponses ==
    { [json |-> FALSE, risk_level |-> "", confidence_score |-> Zero,
       recommendations |-> FALSE],
      [json |-> TRUE, risk_level |-> "high", confidence_score |-> <<9, 10>>,
       recommendations |-> FALSE],
      [json |-> TRUE, risk_level |-> "low", confidence_score |-> <<3, 2>>,
       recommendations |-> TRUE],
      [json |-> TRUE, risk_level |-> "critical", confidence_score |-> <<9, 10>>,
       recommendations |-> FALSE],
      [json |-> TRUE, risk_level |-> "medium", confidence_score |-> <<1, 2>>,
       recommendations |-> TRUE],
      [json |-> TRUE, risk_level |-> "low", confidence_score |-> <<1, 2>>,
       recommendations |-> FALSE] }

\* LLMBehaviorAnalyzer::parseLLMResponse
parseLLMResponse(response, user_id) ==
    IF response.json
    THEN [user |-> user_id,
          severity |-> response.risk_level,
          confidence_score |-> response.confidence_score,
          insight_type |->
              IF response.risk_level \in {"critical", "high"} THEN "alert"
              ELSE IF response.recommendations THEN "recommendation"
              ELSE "pattern"]
    ELSE [user |-> user_id, severity |-> "medium",
          confidence_score |-> <<1, 2>>, insight_type |-> "pattern"]

\* mutant: the severity alone decides the pattern type
InsightPatternType_SeverityOnly(insight) ==
    IF insight.severity \in {"critical", "high"} THEN "suspicious"
    ELSE IF insight.severity = "medium" THEN "anomalous"
    ELSE "normal"

\* handleLLMInsight, lines 707-714
InsightPatternType(insight) ==
    IF insight.insight_type = "alert" \/ insight.severity \in {"critical", "high"}
    THEN "suspicious"
    ELSE IF insight.insight_type = "pattern" \/ insight.severity = "medium"
    THEN "anomalous"
    ELSE "normal"

\* mutant: the insight's confidence replaces the risk score
FusedRisk_Overwrite(risk_score, confidence_score) == confidence_score

\* handleLLMInsight, lines 729-732
FusedRisk(risk_score, confidence_score) == StdMax(risk_score, confidence_score)

\* BehaviorAnalyzer::handleLLMInsight on st = [profiles, history, clock]
handleLLMInsight(st, insight) ==
    LET pattern == [user |-> insight.user,
                    pattern_type |-> InsightPatternType(insight),
                    confidence_score |-> insight.confidence_score,
                    timestamp |-> st.clock + 1, source |-> "llm"]
        profile == st.profiles[insight.user]
    IN [profiles |->
            IF profile.exists
            THEN [st.profiles EXCEPT
                     ![insight.user].recent_patterns = Append(@, pattern),
                     ![insight.user].risk_score =
                          FusedRisk(@, insight.confidence_score)]
            ELSE st.profiles,
        history |-> PushBounded(st.history, pattern),
        clock |-> st.clock + 1,
        pattern |-> pattern]

\* no insight: the call was not handleLLMInsight
NoInsight == [user |-> "", severity |-> "", confidence_score |-> Zero,
              insight_type |-> ""]

\* profiles handed to updateUserProfile
SuppliedPattern(user) ==
    [user |-> user, pattern_type |-> "suspicious", confidence_score |-> <<4, 5>>,
     timestamp |-> 0, source |-> "supplied"]

ProfileInputs(user) ==
    { NewProfile,
      [exists |-> TRUE,
       baseline_metrics |-> Exactly(CHOOSE metrics \in MetricInputs : TRUE),
       recent_patterns |-> <<SuppliedPattern(user)>>,
       risk_score |-> <<4, 5>>] }

\* calls of each kind still to be made
NoBudget == [append |-> 0, update |-> 0, request |-> 0]

\* no call has completed
NoCall == [op |-> "none", user |-> "", pattern |-> NoPattern, fired |-> FALSE,
           insight |-> NoInsight, limit |-> 0, returned |-> << >>]

\* no analysis thread; todo: the contexts the loop has yet to visit, user:
\* the one being analysed, failed: those whose analysis threw in this cycle
NoThread == [at |-> "none", todo |-> {}, user |-> "", failed |-> {}]

\* LLMBehaviorAnalyzer::LLMBehaviorAnalyzer: nothing runs, nothing is stored
LoopIdle ==
    /\ analysis_running_ = FALSE
    /\ real_time_enabled_ = FALSE
    /\ pending_analyses_ = << >>
    /\ overdue = {}
    /\ insights_history_ = << >>
    /\ data_mutex_ = "free"
    /\ analysis_thread_ = NoThread
    /\ main_call = [op |-> "idle", user |-> ""]

\* the variables of BehaviorAnalyzer hold st, nothing was called yet
BehaviorHolds(st) ==
    /\ LoopIdle
    /\ user_profiles_ = st.profiles
    /\ pattern_history_ = st.history
    /\ arrivals = st.clock
    /\ anomaly_callback_ = FALSE
    /\ llm_enabled_ = FALSE
    /\ user_contexts_ = {}
    /\ recent_activities = [u \in Users |-> << >>]
    /\ supplied = [u \in Users |-> 0]
    /\ b_last = NoCall

\* BehaviorAnalyzer::BehaviorAnalyzer, with no call to come
BehaviorIdle == BehaviorHolds(Constructed) /\ b_budget = NoBudget

\* what a step of BehaviorAnalyzer leaves alone
behavior_frame == <<upgrade_vars, version_vars, dlp_vars>>

\* the maps of BehaviorAnalyzer as one value
Analyzer ==
    [profiles |-> user_profiles_, history |-> pattern_history_,
     clock |-> arrivals]

\* the maps take the values of st, and the call is recorded
Becomes(st, op, user, insight) ==
    /\ user_profiles_' = st.profiles
    /\ pattern_history_' = st.history
    /\ arrivals' = st.clock
    /\ b_last' = [op |-> op, user |-> user, pattern |-> st.pattern,
                  fired |-> FiresCallback(st.pattern.pattern_type,
                                          anomaly_callback_),
                  insight |-> insight, limit |-> 0, returned |-> << >>]

\* BehaviorAnalyzer::analyzeActivity with metrics drawn from inputs
AnalyzeActivityOf(inputs) ==
    /\ b_budget.append > 0
    /\ \E user \in Users : \E metrics \in inputs :
          Becomes(analyzeActivity(Analyzer, user, metrics),
                  "analyzeActivity", user, NoInsight)
    /\ b_budget' = [b_budget EXCEPT !.append = @ - 1]
    /\ UNCHANGED <<anomaly_callback_, llm_enabled_, user_contexts_,
                   recent_activities, supplied>>
    /\ UNCHANGED loop_vars
    /\ UNCHANGED behavior_frame

AnalyzeActivity == AnalyzeActivityOf(MetricInputs)

\* BehaviorAnalyzer::getRecentPatterns: the history is walked from its
\* front, a pattern of the user is pushed and the walk ends when the size
\* has reached static_cast<size_t>(limit), which no size reaches for a
\* negative limit
getRecentPatterns(history, user, limit) ==
    LET IsOf(pattern) == pattern.user = user
        of_user == SelectSeq(history, IsOf)
        pushes == IF limit < 0 THEN Len(of_user)
                  ELSE IF limit = 0 THEN 1
                  ELSE limit
    IN SubSeq(of_user, 1, IF pushes < Len(of_user) THEN pushes ELSE Len(of_user))

\* a getRecentPatterns call; 10 is the limit of sendRecentBehaviorPatterns
GetRecentPatterns ==
    /\ \E user \in Users : \E limit \in {-1, 0, 1, 2, RISK_WINDOW} :
          b_last' = [NoCall EXCEPT
                        !.op = "getRecentPatterns", !.user = user,
                        !.limit = limit,
                        !.returned =
                            getRecentPatterns(pattern_history_, user, limit)]
    /\ UNCHANGED <<user_profiles_, pattern_history_, arrivals,
                   anomaly_callback_, llm_enabled_, user_contexts_,
                   recent_activities, supplied, b_budget>>
    /\ UNCHANGED loop_vars
    /\ UNCHANGED behavior_frame

\* BehaviorAnalyzer::updateUserProfile
UpdateUserProfile ==
    /\ b_budget.update > 0
    /\ \E user \in Users : \E profile \in ProfileInputs(user) :
          user_profiles_' = [user_profiles_ EXCEPT ![user] = profile]
    /\ b_budget' = [b_budget EXCEPT !.update = @ - 1]
    /\ UNCHANGED <<pattern_history_, arrivals, anomaly_callback_, llm_enabled_,
                   user_contexts_, recent_activities, supplied, b_last>>
    /\ UNCHANGED loop_vars
    /\ UNCHANGED behavior_frame

\* BehaviorAnalyzer::setAnomalyCallback
SetAnomalyCallback ==
    /\ anomaly_callback_' = TRUE
    /\ UNCHANGED <<user_profiles_, pattern_history_, arrivals, llm_enabled_,
                   user_contexts_, recent_activities, supplied, b_last,
                   b_budget>>
    /\ UNCHANGED loop_vars
    /\ UNCHANGED behavior_frame

\* BehaviorAnalyzer::enableLLMAnalysis with startAnalysis and stopAnalysis:
\* the thread is started when none runs; stopAnalysis returns from join()
\* once the thread has found running_ false, which it does at the test of
\* its loop and not inside a cycle
EnableLLMAnalysis ==
    /\ \E enable \in BOOLEAN :
          /\ llm_enabled_' = enable
          /\ analysis_running_' = enable
          /\ IF enable
             THEN analysis_thread_' =
                      IF analysis_running_ THEN analysis_thread_
                      ELSE [NoThread EXCEPT !.at = "while"]
             ELSE /\ analysis_thread_.at \in {"none", "while", "asleep"}
                  /\ analysis_thread_' = NoThread
    /\ UNCHANGED <<real_time_enabled_, pending_analyses_, overdue,
                   insights_history_, data_mutex_, main_call>>
    /\ UNCHANGED <<user_profiles_, pattern_history_, arrivals,
                   anomaly_callback_, user_contexts_, recent_activities,
                   supplied, b_last, b_budget>>
    /\ UNCHANGED behavior_frame

\* recent_activities.size() > 100
ACTIVITY_CAP == 100

\* mutant: one activity is erased when the list is over the cap
KeepLast_DropOne(activities) ==
    IF Len(activities) > ACTIVITY_CAP THEN Tail(activities) ELSE activities

\* erase(begin(), end() - 100) when the list is over the cap
KeepLast(activities) ==
    IF Len(activities) > ACTIVITY_CAP
    THEN SubSeq(activities, Len(activities) - ACTIVITY_CAP + 1, Len(activities))
    ELSE activities

\* LLMBehaviorAnalyzer::storeInsight without its lock: push_back, and
\* pop_front when more than 1000 are held
storeInsight(history, insight) ==
    LET pushed == Append(history, insight)
    IN IF Len(pushed) > 1000 THEN Tail(pushed) ELSE pushed

\* LLMBehaviorAnalyzer::analyzeUserBehavior, under data_mutex_: the user
\* gets a context, the activities are appended and the list is cut,
\* last_analysis is now, and the user is queued in real-time mode
analyzeUserBehavior(user_id, activities) ==
    /\ data_mutex_ = "free"
    /\ overdue' = overdue \ {user_id}
    /\ pending_analyses_' = IF real_time_enabled_
                            THEN Append(pending_analyses_, user_id)
                            ELSE pending_analyses_
    /\ user_contexts_' = user_contexts_ \cup {user_id}
    /\ recent_activities' =
          [recent_activities EXCEPT ![user_id] = KeepLast(@ \o activities)]
    /\ supplied' = [supplied EXCEPT ![user_id] = @ + Len(activities)]

\* BehaviorAnalyzer::requestLLMAnalysis: with LLM analysis enabled and for a
\* user who has a profile (the call does nothing otherwise) the
\* descriptions of the recent patterns (each stands for its pattern, named
\* by the pattern's timestamp) go to analyzeUserBehavior
RequestLLMAnalysis ==
    /\ b_budget.update > 0
    /\ llm_enabled_
    /\ \E user \in Users :
          /\ user_profiles_[user].exists
          /\ LET patterns == user_profiles_[user].recent_patterns
             IN analyzeUserBehavior(user,
                    [i \in 1 .. Len(patterns) |-> patterns[i].timestamp])
    /\ b_budget' = [b_budget EXCEPT !.update = @ - 1]
    /\ UNCHANGED <<analysis_running_, real_time_enabled_, insights_history_,
                   data_mutex_, analysis_thread_, main_call>>
    /\ UNCHANGED <<user_profiles_, pattern_history_, arrivals,
                   anomaly_callback_, llm_enabled_, b_last>>
    /\ UNCHANGED behavior_frame

\* LLMBehaviorAnalyzer::analyzeUserBehavior called with a batch of new
\* activities; the k-th activity handed in for a user is named k
AnalyzeUserBehavior ==
    /\ b_budget.request > 0
    /\ \E user \in Users : \E size \in {0, 2, ACTIVITY_CAP + 1} :
          analyzeUserBehavior(user, [i \in 1 .. size |-> supplied[user] + i])
    /\ b_budget' = [b_budget EXCEPT !.request = @ - 1]
    /\ UNCHANGED <<analysis_running_, real_time_enabled_, insights_history_,
                   data_mutex_, analysis_thread_, main_call>>
    /\ UNCHANGED <<user_profiles_, pattern_history_, arrivals,
                   anomaly_callback_, llm_enabled_, b_last>>
    /\ UNCHANGED behavior_frame

\* LLMBehaviorAnalyzer::addBehaviorData, under data_mutex_: one activity is
\* pushed and the first is erased when the list is over the cap
AddBehaviorData ==
    /\ b_budget.request > 0
    /\ data_mutex_ = "free"
    /\ \E user \in Users :
          /\ user_contexts_' = user_contexts_ \cup {user}
          /\ recent_activities' =
                [recent_activities EXCEPT ![user] =
                    LET pushed == Append(@, supplied[user] + 1)
                    IN IF Len(pushed) > ACTIVITY_CAP THEN Tail(pushed)
                       ELSE pushed]
          /\ supplied' = [supplied EXCEPT ![user] = @ + 1]
    /\ b_budget' = [b_budget EXCEPT !.request = @ - 1]
    /\ UNCHANGED <<user_profiles_, pattern_history_, arrivals,
                   anomaly_callback_, llm_enabled_, b_last>>
    /\ UNCHANGED loop_vars
    /\ UNCHANGED behavior_frame

\* LLMBehaviorAnalyzer::analyzeRiskPatterns, called by the analysis loop
\* that runs while LLM analysis is enabled: a response is parsed and the
\* insight is handed to handleLLMInsight
AnalyzeRiskPatterns ==
    /\ b_budget.append > 0
    /\ llm_enabled_
    /\ \E user \in user_contexts_ : \E response \in LLMResponses :
          LET insight == parseLLMResponse(response, user)
          IN /\ insights_history_' = storeInsight(insights_history_, insight)
             /\ Becomes(handleLLMInsight(Analyzer, insight),
                        "handleLLMInsight", user, insight)
    /\ b_budget' = [b_budget EXCEPT !.append = @ - 1]
    /\ UNCHANGED <<analysis_running_, real_time_enabled_, pending_analyses_,
                   overdue, data_mutex_, analysis_thread_, main_call>>
    /\ UNCHANGED <<anomaly_callback_, llm_enabled_, user_contexts_,
                   recent_activities, supplied>>
    /\ UNCHANGED behavior_frame

\* BehaviorAnalyzer::generateSecurityRecommendations with
\* LLMBehaviorAnalyzer::generateSecurityRecommendations: the parsed insight
\* is made a recommendation and handed to handleLLMInsight
GenerateSecurityRecommendations ==
    /\ b_budget.append > 0
    /\ llm_enabled_
    /\ \E user \in user_contexts_ : \E response \in LLMResponses :
          LET insight == [parseLLMResponse(response, user) EXCEPT
                              !.insight_type = "recommendation"]
          IN /\ insights_history_' = storeInsight(insights_history_, insight)
             /\ Becomes(handleLLMInsight(Analyzer, insight),
                        "handleLLMInsight", user, insight)
    /\ b_budget' = [b_budget EXCEPT !.append = @ - 1]
    /\ UNCHANGED <<analysis_running_, real_time_enabled_, pending_analyses_,
                   overdue, data_mutex_, analysis_thread_, main_call>>
    /\ UNCHANGED <<anomaly_callback_, llm_enabled_, user_contexts_,
                   recent_activities, supplied>>
    /\ UNCHANGED behavior_frame

BehaviorNext ==
    \/ AnalyzeActivity
    \/ UpdateUserProfile
    \/ SetAnomalyCallback
    \/ EnableLLMAnalysis
    \/ RequestLLMAnalysis
    \/ AnalyzeRiskPatterns
    \/ GenerateSecurityRecommendations

\* ------------------------------------------------------------- DLPMonitor
\* a std::string is the sequence of its pieces; s.find(t) is the index of the
\* first place where t occurs in s, -1 for npos
Find(s, t) ==
    LET hits == { i \in 0 .. Len(s) - Len(t) :
                    \A k \in 1 .. Len(t) : s[i + k] = t[k] }
    IN IF hits = {} THEN -1 ELSE CHOOSE i \in hits : \A j \in hits : i <= j

\* policies handed to addPolicy: extensions only, restricted paths only (a
\* directory and a network address), content patterns only
PolicyInputs ==
    { [name |-> "documents", file_extensions |-> {<<".pdf">>},
       content_patterns |-> {}, restricted_paths |-> {},
       block_transfer |-> TRUE],
      [name |-> "restricted", file_extensions |-> {},
       content_patterns |-> {},
       restricted_paths |-> {<<"/srv">>, <<"10.0.0.5">>},
       block_transfer |-> TRUE],
      [name |-> "content", file_extensions |-> {},
       content_patterns |-> {<<"ssn">>}, restricted_paths |-> {},
       block_transfer |-> FALSE] }

\* files that get created, with the directory they are in, their name,
\* what they hold and whether the monitor can open them
Files ==
    { [dir |-> <<"/tmp">>, name |-> <<"report", ".pdf">>, content |-> <<"hello">>, readable |-> TRUE],
      [dir |-> <<"/tmp">>, name |-> <<"a", ".pdf", ".txt">>, content |-> <<"hello">>, readable |-> TRUE],
      [dir |-> <<"/tmp">>, name |-> <<"memo", ".txt">>, content |-> <<"my", "SECRET">>, readable |-> TRUE],
      [dir |-> <<"/tmp">>, name |-> <<"form", ".txt">>, content |-> <<"ssn", "123">>, readable |-> TRUE],
      [dir |-> <<"/tmp">>, name |-> <<"plain", ".txt">>, content |-> <<"hello">>, readable |-> TRUE],
      [dir |-> <<"/srv">>, name |-> <<"plan", ".txt">>, content |-> << >>, readable |-> TRUE],
      [dir |-> <<"/tmp">>, name |-> <<"keys", ".txt">>, content |-> <<"password">>,
       readable |-> FALSE] }

Unnamed == [dir |-> << >>, name |-> << >>, content |-> << >>,
            readable |-> TRUE]

\* watch_path + "/" + event->name
FullPath(file) == file.dir \o <<"/">> \o file.name

\* ::tolower on a piece of content
ToLower(piece) == IF piece = "SECRET" THEN "secret" ELSE piece

\* mutant: the keywords are looked for whatever the policies hold
checkContentAgainstPolicies_KeywordsAlways(policies, file) ==
    /\ file.readable
    /\ file.content # << >>
    /\ \/ \E i \in 1 .. Len(policies) :
             \E pattern \in policies[i].content_patterns :
                Find(file.content, pattern) # -1
       \/ \E k \in 1 .. Len(file.content) :
             ToLower(file.content[k]) \in {"confidential", "secret", "internal",
                                           "password", "api_key", "token"}

\* DLPMonitor::checkContentAgainstPolicies: a file that does not open or
\* holds nothing is no match; the keywords are looked for once per content
\* pattern of a policy
checkContentAgainstPolicies(policies, file) ==
    /\ file.readable
    /\ file.content # << >>
    /\ \E i \in 1 .. Len(policies) : \E pattern \in policies[i].content_patterns :
          \/ Find(file.content, pattern) # -1
          \/ \E k \in 1 .. Len(file.content) :
                ToLower(file.content[k]) \in
                    {"confidential", "secret", "internal", "password",
                     "api_key", "token"}

\* DLPMonitor::checkFileAgainstPolicies
checkFileAgainstPolicies(policies, file) ==
    \E i \in 1 .. Len(policies) :
        \/ \E ext \in policies[i].file_extensions : Find(FullPath(file), ext) # -1
        \/ \E path \in policies[i].restricted_paths : Find(FullPath(file), path) = 0
        \/ checkContentAgainstPolicies(policies, file)

\* the events handed to the callback, one per policy the loop over
\* policies_ hits; as_policy: the event takes the policy's block_transfer
EventPerPolicy(hits, type, subject, as_policy) ==
    [i \in 1 .. Len(hits) |->
        [type |-> type, subject |-> subject,
         blocked |-> as_policy /\ hits[i].block_transfer]]

\* std::to_string(event->dport)
PortToString(port) ==
    CASE port = 21 -> "21" [] port = 22 -> "22" [] port = 443 -> "443"

SuspiciousPorts == {21, 22, 25, 110, 143, 993, 995}

\* transfers the kernel probe reports: size, destination address and port
Transfers ==
    { [size |-> 200, daddr |-> "8.8.8.8", dport |-> 443],
      [size |-> 1048576, daddr |-> "8.8.8.8", dport |-> 443],
      [size |-> 1048577, daddr |-> "8.8.8.8", dport |-> 443],
      [size |-> 200, daddr |-> "10.0.0.5", dport |-> 443],
      [size |-> 200, daddr |-> "8.8.8.8", dport |-> 22] }

\* dst_ip + ":" + std::to_string(event->dport)
Destination(transfer) == <<transfer.daddr, ":", PortToString(transfer.dport)>>

\* DLPMonitor::checkNetworkTransfer: the events handed to the callback
checkNetworkTransfer(policies, callback, transfer) ==
    LET Violation(policy) ==
            /\ callback
            /\ \/ transfer.size > 1024 * 1024
               \/ \E restricted_dest \in policy.restricted_paths :
                     Find(Destination(transfer), restricted_dest) # -1
               \/ transfer.dport \in SuspiciousPorts
    IN EventPerPolicy(SelectSeq(policies, Violation), "network_transfer",
                      Destination(transfer), TRUE)

\* what one round of the polling fallback comes upon: a listening port, a
\* running transfer program, an established connection
Sightings ==
    { [kind |-> "port", port |-> 22, remote |-> "0.0.0.0"],
      [kind |-> "port", port |-> 443, remote |-> "0.0.0.0"],
      [kind |-> "process", port |-> 0, remote |-> "0.0.0.0"],
      [kind |-> "connection", port |-> 443, remote |-> "10.0.0.5"],
      [kind |-> "connection", port |-> 443, remote |-> "8.8.8.8"] }

\* checkPortAgainstPolicies, monitorSuspiciousProcesses and
\* checkDestinationAgainstPolicies (hexToIp gives the address without port)
PollingEvents(policies, callback, sighting) ==
    LET Blocking(policy) == policy.block_transfer /\ callback
        Restricted(policy) ==
            /\ callback
            /\ \E restricted_dest \in policy.restricted_paths :
                  Find(<<sighting.remote>>, restricted_dest) # -1
    IN CASE sighting.kind = "port" ->
              IF sighting.port \in SuspiciousPorts
              THEN EventPerPolicy(SelectSeq(policies, Blocking),
                       "suspicious_port",
                       <<"localhost", ":", PortToString(sighting.port)>>,
                       FALSE)
              ELSE << >>
         [] sighting.kind = "process" ->
              EventPerPolicy(SelectSeq(policies, Blocking),
                             "suspicious_process", <<"ssh">>, FALSE)
         [] sighting.kind = "connection" ->
              EventPerPolicy(SelectSeq(policies, Restricted),
                             "restricted_destination", <<sighting.remote>>,
                             TRUE)

\* ways the bring-up of the kernel probe ends: built without the library,
\* init fails, one kprobe does not attach, the event buffer does not open,
\* an exception is thrown, all goes well
ProbeOutcomes ==
    {"no_bcc", "init_failed", "tcp_attach_failed", "udp_attach_failed",
     "buffer_failed", "threw", "attached"}

\* the threads of one startMonitoring call: the position of the filesystem
\* watch, its watch descriptors, the notifications it has not read, those
\* in its buffer, whether policies_ was written while it walked it, and
\* the position of the network watch
NewThreads ==
    [fs |-> "init", watched |-> {}, queue |-> << >>, buffer |-> << >>,
     raced |-> FALSE, net |-> "init"]

\* DLPMonitor after the policies of a store were added and, maybe, a
\* callback was set
DlpHolds(store, callback, budget) ==
    /\ policies_ = store
    /\ monitored_paths_ =
          UNION { store[i].restricted_paths : i \in 1 .. Len(store) }
    /\ dlp_running_ = FALSE
    /\ dlp_callback_ = callback
    /\ dlp_threads = << >>
    /\ dlp_last = [op |-> "none", subject |-> Unnamed, result |-> FALSE,
                   events |-> << >>]
    /\ dlp_budget = budget

\* DLPMonitor::DLPMonitor, with no call to come
DlpIdle ==
    DlpHolds(<< >>, FALSE, [config |-> 0, switches |-> 0, happenings |-> 0])

\* what a step of DLPMonitor leaves alone
dlp_frame == <<upgrade_vars, version_vars, behavior_vars>>

DlpDone(op, subject, result, events) ==
    dlp_last' = [op |-> op, subject |-> subject, result |-> result,
                 events |-> events]

\* policies_ becomes store, with no lock: a filesystem watch that is
\* walking policies_ in checkFileAgainstPolicies walks a vector that is
\* written under it
WritePolicies(store) ==
    /\ policies_' = store
    /\ dlp_threads' =
          [g \in DOMAIN dlp_threads |->
              IF dlp_threads[g].fs = "check" /\ store # policies_
              THEN [dlp_threads[g] EXCEPT !.raced = TRUE]
              ELSE dlp_threads[g]]

\* DLPMonitor::addPolicy
AddPolicy ==
    /\ dlp_budget.config > 0
    /\ \E policy \in PolicyInputs :
          /\ WritePolicies(Append(policies_, policy))
          /\ monitored_paths_' = monitored_paths_ \cup policy.restricted_paths
    /\ dlp_budget' = [dlp_budget EXCEPT !.config = @ - 1]
    /\ UNCHANGED <<dlp_running_, dlp_callback_, dlp_last>>
    /\ UNCHANGED dlp_frame

\* DLPMonitor::removePolicy
RemovePolicy ==
    /\ dlp_budget.config > 0
    /\ \E policy_name \in { policy.name : policy \in PolicyInputs } :
          LET Other(p) == p.name # policy_name
          IN WritePolicies(SelectSeq(policies_, Other))
    /\ dlp_budget' = [dlp_budget EXCEPT !.config = @ - 1]
    /\ UNCHANGED <<monitored_paths_, dlp_running_, dlp_callback_, dlp_last>>
    /\ UNCHANGED dlp_frame

\* DLPMonitor::setCallback
SetCallback ==
    /\ dlp_budget.config > 0
    /\ dlp_callback_' = TRUE
    /\ dlp_budget' = [dlp_budget EXCEPT !.config = @ - 1]
    /\ UNCHANGED <<policies_, monitored_paths_, dlp_running_, dlp_threads, dlp_last>>
    /\ UNCHANGED dlp_frame

\* DLPMonitor::startMonitoring: the threads are detached (the clipboard
\* thread only sleeps and is left out)
StartMonitoring ==
    /\ dlp_budget.switches > 0
    /\ dlp_running_' = TRUE
    /\ dlp_threads' = IF dlp_running_ THEN dlp_threads
                      ELSE Append(dlp_threads, NewThreads)
    /\ dlp_budget' = [dlp_budget EXCEPT !.switches = @ - 1]
    /\ DlpDone("startMonitoring", Unnamed, FALSE, << >>)
    /\ UNCHANGED <<policies_, monitored_paths_, dlp_callback_>>
    /\ UNCHANGED dlp_frame

\* DLPMonitor::stopMonitoring
StopMonitoring ==
    /\ dlp_budget.switches > 0
    /\ dlp_running_' = FALSE
    /\ dlp_budget' = [dlp_budget EXCEPT !.switches = @ - 1]
    /\ DlpDone("stopMonitoring", Unnamed, FALSE, << >>)
    /\ UNCHANGED <<policies_, monitored_paths_, dlp_callback_, dlp_threads>>
    /\ UNCHANGED dlp_frame

\* a step of a detached thread: it changes its own record and may hand
\* events to the callback
ThreadStep(g, threads) ==
    /\ dlp_threads' = [dlp_threads EXCEPT ![g] = threads]
    /\ UNCHANGED <<policies_, monitored_paths_, dlp_running_, dlp_callback_>>
    /\ UNCHANGED dlp_frame

\* monitorFileSystem up to its loop: inotify_add_watch accepts the
\* directories /tmp and /srv, and without a watch the thread returns
FsSetup(g) ==
    /\ dlp_threads[g].fs = "init"
    /\ LET watched == monitored_paths_ \cap {<<"/tmp">>, <<"/srv">>}
       IN ThreadStep(g, [dlp_threads[g] EXCEPT
                            !.watched = watched,
                            !.fs = IF watched = {} THEN "done" ELSE "loop"])
    /\ UNCHANGED <<dlp_last, dlp_budget>>

\* while (running_)
FsLoop(g) ==
    /\ dlp_threads[g].fs = "loop"
    /\ ThreadStep(g, [dlp_threads[g] EXCEPT
                         !.fs = IF dlp_running_ THEN "read" ELSE "done"])
    /\ UNCHANGED <<dlp_last, dlp_budget>>

\* read(inotify_fd, ...) on the blocking descriptor returns when there are
\* notifications, which are now in the buffer
FsRead(g) ==
    /\ dlp_threads[g].fs = "read"
    /\ dlp_threads[g].queue # << >>
    /\ ThreadStep(g, [dlp_threads[g] EXCEPT
                         !.fs = "check", !.buffer = dlp_threads[g].queue,
                         !.queue = << >>, !.raced = FALSE])
    /\ UNCHANGED <<dlp_last, dlp_budget>>

\* each file named in the buffer is checked against policies_ and
\* reported; when policies_ was written during the walk (a data race) the
\* verdict for a file is either value
FsCheck(g) ==
    /\ dlp_threads[g].fs = "check"
    /\ LET buffer == dlp_threads[g].buffer
       IN \E verdicts \in [1 .. Len(buffer) -> BOOLEAN] :
             /\ \/ dlp_threads[g].raced
                \/ \A i \in 1 .. Len(buffer) :
                      verdicts[i] = checkFileAgainstPolicies(policies_, buffer[i])
             /\ LET Reported(i) == verdicts[i] /\ dlp_callback_
                    hits == SelectSeq([i \in 1 .. Len(buffer) |-> i], Reported)
                IN DlpDone("notified", Head(buffer), verdicts[1],
                           [k \in 1 .. Len(hits) |->
                               [type |-> "file_access",
                                subject |-> FullPath(buffer[hits[k]]),
                                blocked |-> TRUE]])
    /\ ThreadStep(g, [dlp_threads[g] EXCEPT
                         !.fs = "loop", !.buffer = << >>, !.raced = FALSE])
    /\ UNCHANGED dlp_budget

\* monitorNetworkTransfers up to its loop or to fallbackNetworkMonitoring
NetSetup(g) ==
    /\ dlp_threads[g].net = "init"
    /\ \E outcome \in ProbeOutcomes :
          /\ ThreadStep(g, [dlp_threads[g] EXCEPT
                 !.net = IF outcome \in {"no_bcc", "init_failed",
                                         "buffer_failed", "threw"}
                         THEN "fallback" ELSE "probe"])
          /\ DlpDone("bring_up", [outcome |-> outcome, threads |-> g],
                     FALSE, << >>)
    /\ UNCHANGED dlp_budget

\* poll_perf_buffer hands a transfer to handleNetworkEvent
ProbePoll(g) ==
    /\ dlp_threads[g].net = "probe"
    /\ dlp_running_
    /\ dlp_budget.happenings > 0
    /\ \E transfer \in Transfers :
          DlpDone("transfer", transfer, FALSE,
                  checkNetworkTransfer(policies_, dlp_callback_, transfer))
    /\ dlp_budget' = [dlp_budget EXCEPT !.happenings = @ - 1]
    /\ ThreadStep(g, dlp_threads[g])

\* one round of fallbackNetworkMonitoring
FallbackRound(g) ==
    /\ dlp_threads[g].net = "fallback"
    /\ dlp_running_
    /\ dlp_budget.happenings > 0
    /\ \E sighting \in Sightings :
          DlpDone("polled", sighting, FALSE,
                  PollingEvents(policies_, dlp_callback_, sighting))
    /\ dlp_budget' = [dlp_budget EXCEPT !.happenings = @ - 1]
    /\ ThreadStep(g, dlp_threads[g])

\* the loop of either network strategy finds running_ false
NetExit(g) ==
    /\ dlp_threads[g].net \in {"probe", "fallback"}
    /\ ~dlp_running_
    /\ ThreadStep(g, [dlp_threads[g] EXCEPT !.net = "done"])
    /\ UNCHANGED <<dlp_last, dlp_budget>>

\* a file is created: every inotify instance with a watch on its directory
\* gets a notification
CreateFile ==
    /\ dlp_budget.happenings > 0
    /\ \E file \in { f \in Files : f.name[1] \in {"report", "memo", "plan"} } :
          /\ dlp_threads' =
                [g \in DOMAIN dlp_threads |->
                    IF dlp_threads[g].fs \in {"loop", "read", "check"}
                       /\ file.dir \in dlp_threads[g].watched
                    THEN [dlp_threads[g] EXCEPT !.queue = Append(@, file)]
                    ELSE dlp_threads[g]]
          /\ DlpDone("created", file, FALSE, << >>)
    /\ dlp_budget' = [dlp_budget EXCEPT !.happenings = @ - 1]
    /\ UNCHANGED <<policies_, monitored_paths_, dlp_running_, dlp_callback_>>
    /\ UNCHANGED dlp_frame

\* the steps of the detached threads that wait for nothing outside
DlpThreads ==
    \E g \in DOMAIN dlp_threads :
        \/ FsSetup(g) \/ FsLoop(g) \/ FsRead(g) \/ FsCheck(g)
        \/ NetSetup(g) \/ NetExit(g)

DlpNext ==
    \/ AddPolicy
    \/ RemovePolicy
    \/ SetCallback
    \/ StartMonitoring
    \/ StopMonitoring
    \/ \E g \in DOMAIN dlp_threads : FsSetup(g)
    \/ \E g \in DOMAIN dlp_threads : FsLoop(g)
    \/ \E g \in DOMAIN dlp_threads : FsRead(g)
    \/ \E g \in DOMAIN dlp_threads : FsCheck(g)
    \/ \E g \in DOMAIN dlp_threads : NetSetup(g)
    \/ \E g \in DOMAIN dlp_threads : ProbePoll(g)
    \/ \E g \in DOMAIN dlp_threads : FallbackRound(g)
    \/ \E g \in DOMAIN dlp_threads : NetExit(g)
    \/ CreateFile

\* ---------------------------------------------------------- specification
\* the agent after construction
Init == UpgradeInit /\ VersionIdle /\ BehaviorIdle /\ DlpIdle

\* the caller thread together with the auto-update thread
Next ==
    \/ \E t \in Threads : CheckBegin(t)
    \/ \E t \in Threads : CheckFetch(t)
    \/ \E t \in Threads : CheckStore(t)
    \/ DownloadBegin
    \/ DownloadTransfer
    \/ DownloadVerify
    \/ InstallBegin
    \/ InstallBackup
    \/ InstallExtract
    \/ InstallReplace
    \/ RollbackBegin
    \/ RollbackRestore
    \/ SetBackupEnabled
    \/ SetUpdateAvailableCallback
    \/ StartAutoUpdateCheck
    \/ StopAutoUpdateCheck
    \/ JoinAutoUpdate
    \/ AutoLoopSleep
    \/ AutoLoopExit

Spec == Init /\ [][Next]_vars

\* ------------------------------------------- VersionInfo comparison alone
\* largest major, minor and patch number compared
MaxVersionPart == 1

VersionParts == 0 .. MaxVersionPart

\* build tag and release date a VersionInfo can carry
Tags == { [build |-> "", release_date |-> ""],
          [build |-> "dev", release_date |-> "2025-01-06"] }

Untagged ==
    [major : VersionParts, minor : VersionParts, patch : VersionParts,
     build : {""}, release_date : {""}]

\* what a step of the comparison leaves alone
version_frame == <<upgrade_vars, behavior_vars, dlp_vars>>

VersionInit ==
    /\ UpgradeInit
    /\ BehaviorIdle
    /\ DlpIdle
    /\ va \in Untagged /\ vb \in Untagged /\ vc \in Untagged
    /\ cmp = NoCmp /\ cmp_first = NoCmp

\* the six comparison operators applied to (a, b), and operator< applied to
\* (b, c) and (a, c)
Compared(a, b, c) ==
    [done |-> TRUE,
     lt |-> VersionLess(a, b), gt |-> VersionGreater(a, b),
     eq |-> VersionEq(a, b), ne |-> VersionNe(a, b),
     le |-> VersionLe(a, b), ge |-> VersionGe(a, b),
     bc_lt |-> VersionLess(b, c), ac_lt |-> VersionLess(a, c)]

Compare ==
    /\ ~cmp.done
    /\ cmp' = Compared(va, vb, vc)
    /\ cmp_first' = IF cmp_first.done THEN cmp_first ELSE cmp'
    /\ UNCHANGED <<va, vb, vc>>
    /\ UNCHANGED version_frame

\* the build tag and the release date of one of the versions are rewritten
Retag ==
    /\ cmp.done
    /\ \E which \in {"a", "b", "c"}, t \in Tags :
         LET tagged(v) == [v EXCEPT !.build = t.build,
                                    !.release_date = t.release_date]
         IN /\ va' = IF which = "a" THEN tagged(va) ELSE va
            /\ vb' = IF which = "b" THEN tagged(vb) ELSE vb
            /\ vc' = IF which = "c" THEN tagged(vc) ELSE vc
    /\ cmp' = NoCmp
    /\ UNCHANGED cmp_first
    /\ UNCHANGED version_frame

VersionNext == Compare \/ Retag

VersionSpec == VersionInit /\ [][VersionNext]_vars

\* ---------------------------------------------- BehaviorAnalyzer alone
\* analyzeActivity calls and insights, counted together, of a run
MaxAppends == 2
\* updateUserProfile and requestLLMAnalysis calls of a run
MaxProfileUpdates == 2

\* BehaviorAnalyzer on its own, after construction or after RISK_WINDOW
\* analyzeActivity calls for one user
BehaviorInit ==
    /\ UpgradeInit /\ available_update_.version.major = 0
    /\ VersionIdle
    /\ DlpIdle
    /\ \E n \in {0, RISK_WINDOW} : BehaviorHolds(NativeRun(n, "alice"))
    /\ b_budget = [append |-> MaxAppends, update |-> MaxProfileUpdates,
                   request |-> 0]

BehaviorSpec == BehaviorInit /\ [][BehaviorNext]_vars

\* the i-th pattern of a run of analyzeActivity calls for one user alone:
\* the patterns before it are normal, so its confidence is 0 over the value
\* total_recent has after the loop, and it is normal
NativePattern(user, i) ==
    [user |-> user, pattern_type |-> "normal",
     confidence_score |->
         IF i = 1 THEN Zero
         ELSE <<0, 10 * (IF i - 1 > RISK_WINDOW THEN RISK_WINDOW + 1 ELSE i - 1)>>,
     timestamp |-> i, source |-> "native"]

\* NativeRun(n, user) for 0 < n <= HISTORY_CAP, written out
LongNativeRun(n, user) ==
    [profiles |->
        [u \in Users |->
            IF u = user
            THEN [exists |-> TRUE,
                  baseline_metrics |->
                      Exactly(CHOOSE metrics \in MetricInputs : TRUE),
                  recent_patterns |-> [i \in 1 .. n |-> NativePattern(user, i)],
                  risk_score |-> NativePattern(user, n).confidence_score]
            ELSE NoProfile],
     history |-> [i \in 1 .. n |-> NativePattern(user, i)],
     clock |-> n,
     pattern |-> NativePattern(user, n)]

\* BehaviorAnalyzer after HISTORY_CAP - 1 or HISTORY_CAP analyzeActivity
\* calls for one user
LongRunInit ==
    /\ UpgradeInit /\ available_update_.version.major = 0
    /\ VersionIdle
    /\ DlpIdle
    /\ \E n \in {HISTORY_CAP - 1, HISTORY_CAP} :
          BehaviorHolds(LongNativeRun(n, "alice"))
    /\ b_budget = [append |-> MaxAppends, update |-> MaxProfileUpdates,
                   request |-> 0]

\* the calls that append patterns, and the calls that let insights arrive
LongRunNext ==
    \/ AnalyzeActivity
    \/ EnableLLMAnalysis
    \/ RequestLLMAnalysis
    \/ AnalyzeRiskPatterns
    \/ GenerateSecurityRecommendations

LongRunSpec == LongRunInit /\ [][LongRunNext]_vars

\* ------------------------------------------- the baseline of a user
\* analyzeActivity calls of a run that hands in the same metrics each time
MaxSameMetricRun == 11

\* baselines a profile has when the run starts: the metrics of the run, 0,
\* and a hundred times the metrics of the run
BaselineInputs == { Exactly(0), Exactly(10000), Exactly(1000000) }

\* updateUserProfile gave one user a profile with a baseline
BaselineInit ==
    /\ UpgradeInit /\ available_update_.version.major = 0
    /\ VersionIdle
    /\ DlpIdle
    /\ \E baseline \in BaselineInputs :
          BehaviorHolds([Constructed EXCEPT !.profiles["alice"] =
              [NewProfile EXCEPT !.baseline_metrics = baseline]])
    /\ b_budget = [append |-> MaxSameMetricRun, update |-> 0, request |-> 0]

BaselineNext == AnalyzeActivity

BaselineSpec == BaselineInit /\ [][BaselineNext]_vars

\* ------------------------------------------- analyzeActivity calls alone
\* analyzeActivity calls of a run that makes no other call
MaxNativeCalls == 3

\* a user whose profile was given up to RISK_WINDOW + 2 suspicious patterns
ScoreInit ==
    /\ UpgradeInit /\ available_update_.version.major = 0
    /\ VersionIdle
    /\ DlpIdle
    /\ \E n \in 0 .. RISK_WINDOW + 2 :
          BehaviorHolds([Constructed EXCEPT !.profiles["alice"] =
              [NewProfile EXCEPT !.recent_patterns =
                  [i \in 1 .. n |-> SuppliedPattern("alice")]]])
    /\ b_budget = [append |-> MaxNativeCalls, update |-> 0, request |-> 0]

ScoreSpec == ScoreInit /\ [][AnalyzeActivity]_vars

\* BehaviorAnalyzer after construction, with analyzeActivity calls to come
NativeInit ==
    /\ UpgradeInit /\ available_update_.version.major = 0
    /\ VersionIdle
    /\ DlpIdle
    /\ BehaviorHolds(Constructed)
    /\ b_budget = [append |-> MaxNativeCalls, update |-> 0, request |-> 0]

\* analyzeActivity with metrics that are 0, far below and far above one
\* another, the registration of the callback and the reading of patterns
NativeNext ==
    \/ AnalyzeActivityOf({0, 10000, 1000000})
    \/ SetAnomalyCallback
    \/ GetRecentPatterns

NativeSpec == NativeInit /\ [][NativeNext]_vars

\* ------------------------------------------- LLMBehaviorAnalyzer alone
\* addBehaviorData and analyzeUserBehavior calls of a run
MaxActivityCalls == 3

\* LLMBehaviorAnalyzer on its own, after construction or after
\* ACTIVITY_CAP - 1 addBehaviorData calls for one user
ActivityInit ==
    /\ UpgradeInit /\ available_update_.version.major = 0
    /\ VersionIdle
    /\ DlpIdle
    /\ user_profiles_ = Constructed.profiles
    /\ pattern_history_ = << >> /\ arrivals = 0
    /\ anomaly_callback_ = FALSE /\ llm_enabled_ = FALSE
    /\ b_last = NoCall
    /\ LoopIdle
    /\ \E n \in {0, ACTIVITY_CAP - 1} :
          /\ user_contexts_ = IF n = 0 THEN {} ELSE {"alice"}
          /\ recent_activities =
                [u \in Users |-> IF u = "alice" THEN [i \in 1 .. n |-> i]
                                 ELSE << >>]
          /\ supplied = [u \in Users |-> IF u = "alice" THEN n ELSE 0]
    /\ b_budget = [append |-> 0, update |-> 0, request |-> MaxActivityCalls]

ActivitySpec == ActivityInit /\ [][AnalyzeUserBehavior \/ AddBehaviorData]_vars

\* ------------------------------- the analysis thread and its callers
\* LLMBehaviorAnalyzer::enableRealTimeAnalysis
EnableRealTimeAnalysis ==
    /\ \E enable \in BOOLEAN :
          /\ enable # real_time_enabled_
          /\ real_time_enabled_' = enable
    /\ UNCHANGED <<analysis_running_, pending_analyses_, overdue,
                   insights_history_, data_mutex_, analysis_thread_, main_call>>
    /\ UNCHANGED <<user_profiles_, pattern_history_, arrivals,
                   anomaly_callback_, llm_enabled_, user_contexts_,
                   recent_activities, supplied, b_last, b_budget>>
    /\ UNCHANGED behavior_frame

\* what the steps of the analysis thread leave alone besides the maps of
\* BehaviorAnalyzer, which only the insight callback touches
loop_frame ==
    <<analysis_running_, real_time_enabled_, insights_history_, main_call,
      anomaly_callback_, llm_enabled_, user_contexts_, recent_activities,
      supplied, behavior_frame>>

\* the maps of BehaviorAnalyzer and its call budget
analyzer_frame ==
    <<user_profiles_, pattern_history_, arrivals, b_last, b_budget>>

\* the analysis thread is between the lock_guard of
\* performBehavioralAnalysis and the end of that function
InCycle == analysis_thread_.at \in {"scan", "provider", "store", "stuck"}

\* analysisLoop finds running_ true and calls performBehavioralAnalysis,
\* which locks data_mutex_ and starts to walk user_contexts_
CycleBegin ==
    /\ analysis_thread_.at = "while"
    /\ analysis_running_
    /\ data_mutex_ = "free"
    /\ data_mutex_' = "analysis"
    /\ analysis_thread_' =
          [at |-> "scan", todo |-> user_contexts_, user |-> "", failed |-> {}]
    /\ UNCHANGED <<pending_analyses_, overdue>>
    /\ UNCHANGED analyzer_frame
    /\ UNCHANGED loop_frame

\* a user is due when queued or when last_analysis is analysis_interval_ old
Due(user_id) ==
    \/ \E i \in 1 .. Len(pending_analyses_) : pending_analyses_[i] = user_id
    \/ user_id \in overdue

\* pending_analyses_.erase(it) with it the first occurrence of user_id
EraseFirst(pending, user_id) ==
    IF \E i \in 1 .. Len(pending) : pending[i] = user_id
    THEN LET first == CHOOSE i \in 1 .. Len(pending) :
                         /\ pending[i] = user_id
                         /\ \A j \in 1 .. i - 1 : pending[j] # user_id
         IN SubSeq(pending, 1, first - 1) \o
            SubSeq(pending, first + 1, Len(pending))
    ELSE pending

\* the loop of performBehavioralAnalysis comes to a context (in the order
\* of the unordered_map) and calls analyzeRiskPatterns for a user who is
\* due, which builds the prompt and calls the provider
CycleVisit ==
    /\ analysis_thread_.at = "scan"
    /\ \E user \in analysis_thread_.todo :
          analysis_thread_' =
              IF Due(user)
              THEN [analysis_thread_ EXCEPT !.at = "provider", !.user = user]
              ELSE [analysis_thread_ EXCEPT !.todo = @ \ {user}]
    /\ UNCHANGED <<pending_analyses_, overdue, data_mutex_>>
    /\ UNCHANGED analyzer_frame
    /\ UNCHANGED loop_frame

\* analyzeRiskPatterns has returned to performBehavioralAnalysis, which
\* sets last_analysis and erases the user from the queue; threw tells
\* whether the catch clause of analyzeRiskPatterns ran
Analyzed(threw) ==
    LET user == analysis_thread_.user
    IN /\ overdue' = overdue \ {user}
       /\ pending_analyses_' = EraseFirst(pending_analyses_, user)
       /\ analysis_thread_' =
             [at |-> "scan", todo |-> analysis_thread_.todo \ {user},
              user |-> "",
              failed |-> IF threw THEN analysis_thread_.failed \cup {user}
                         ELSE analysis_thread_.failed]

\* the provider call of analyzeRiskPatterns ends: it threw (no API key, the
\* transfer failed, the envelope did not parse), returned an empty
\* response, or returned a response
ProviderReturns ==
    /\ analysis_thread_.at = "provider"
    /\ \E outcome \in {"threw", "empty", "response"} :
          IF outcome = "response"
          THEN /\ analysis_thread_' = [analysis_thread_ EXCEPT !.at = "store"]
               /\ UNCHANGED <<pending_analyses_, overdue>>
          ELSE Analyzed(outcome = "threw")
    /\ UNCHANGED data_mutex_
    /\ UNCHANGED analyzer_frame
    /\ UNCHANGED loop_frame

\* analyzeRiskPatterns parses the response and calls storeInsight, whose
\* lock_guard locks data_mutex_ while this thread holds it. For a
\* std::mutex that is undefined: lock() blocks for ever, or throws
\* std::system_error into the catch clause of analyzeRiskPatterns, or
\* returns; after it returned the insight is pushed, the inner guard
\* unlocks the mutex and the callback runs
StoreInsight ==
    /\ analysis_thread_.at = "store"
    /\ \E relock \in {"blocks", "throws", "acquires"} :
          CASE relock = "blocks" ->
                  /\ analysis_thread_' = [analysis_thread_ EXCEPT !.at = "stuck"]
                  /\ UNCHANGED <<pending_analyses_, overdue, data_mutex_,
                                 insights_history_>>
                  /\ UNCHANGED analyzer_frame
            [] relock = "throws" ->
                  /\ Analyzed(TRUE)
                  /\ UNCHANGED <<data_mutex_, insights_history_>>
                  /\ UNCHANGED analyzer_frame
            [] relock = "acquires" ->
                  /\ b_budget.append > 0
                  /\ \E response \in LLMResponses :
                        LET insight ==
                                parseLLMResponse(response, analysis_thread_.user)
                        IN /\ insights_history_' =
                                 storeInsight(insights_history_, insight)
                           /\ Becomes(handleLLMInsight(Analyzer, insight),
                                      "handleLLMInsight",
                                      analysis_thread_.user, insight)
                  /\ data_mutex_' = "free"
                  /\ b_budget' = [b_budget EXCEPT !.append = @ - 1]
                  /\ Analyzed(FALSE)
    /\ UNCHANGED <<analysis_running_, real_time_enabled_, main_call,
                   anomaly_callback_, llm_enabled_, user_contexts_,
                   recent_activities, supplied, behavior_frame>>

\* performBehavioralAnalysis returns, its lock_guard unlocks data_mutex_,
\* and analysisLoop sleeps; every context that is not updated during the
\* sleep is due when the sleep ends
CycleEnd ==
    /\ analysis_thread_.at = "scan"
    /\ analysis_thread_.todo = {}
    /\ data_mutex_' = "free"
    /\ analysis_thread_' = [analysis_thread_ EXCEPT !.at = "asleep"]
    /\ overdue' = user_contexts_
    /\ UNCHANGED pending_analyses_
    /\ UNCHANGED analyzer_frame
    /\ UNCHANGED loop_frame

\* sleep_for(seconds(analysis_interval_)) returns
Wake ==
    /\ analysis_thread_.at = "asleep"
    /\ analysis_thread_' = [analysis_thread_ EXCEPT !.at = "while"]
    /\ UNCHANGED <<pending_analyses_, overdue, data_mutex_>>
    /\ UNCHANGED analyzer_frame
    /\ UNCHANGED loop_frame

\* analysis_interval_ seconds pass while no analysis thread runs
IntervalPasses ==
    /\ analysis_thread_.at = "none"
    /\ overdue # user_contexts_
    /\ overdue' = user_contexts_
    /\ UNCHANGED <<pending_analyses_, data_mutex_, analysis_thread_>>
    /\ UNCHANGED analyzer_frame
    /\ UNCHANGED loop_frame

\* the steps of the analysis thread
LoopStep ==
    \/ CycleBegin
    \/ CycleVisit
    \/ ProviderReturns
    \/ StoreInsight
    \/ CycleEnd
    \/ Wake

\* a caller enters LLMBehaviorAnalyzer::generateSecurityRecommendations:
\* user_contexts_.find(user_id) finds the context, with no lock taken, and
\* formatBehaviorData is about to read it
RecommendBegin ==
    /\ main_call.op = "idle"
    /\ \E user \in user_contexts_ :
          main_call' = [op |-> "format", user |-> user]
    /\ UNCHANGED <<analysis_running_, real_time_enabled_, pending_analyses_,
                   overdue, insights_history_, data_mutex_, analysis_thread_>>
    /\ UNCHANGED <<anomaly_callback_, llm_enabled_, user_contexts_,
                   recent_activities, supplied>>
    /\ UNCHANGED analyzer_frame
    /\ UNCHANGED behavior_frame

\* formatBehaviorData has read the context and the provider is called
RecommendFormatted ==
    /\ main_call.op = "format"
    /\ main_call' = [main_call EXCEPT !.op = "provider"]
    /\ UNCHANGED <<analysis_running_, real_time_enabled_, pending_analyses_,
                   overdue, insights_history_, data_mutex_, analysis_thread_>>
    /\ UNCHANGED <<anomaly_callback_, llm_enabled_, user_contexts_,
                   recent_activities, supplied>>
    /\ UNCHANGED analyzer_frame
    /\ UNCHANGED behavior_frame

\* the provider call of generateSecurityRecommendations ends; a response
\* is parsed, made a recommendation, stored under data_mutex_ and handed
\* to the callback
RecommendEnd ==
    /\ main_call.op = "provider"
    /\ main_call' = [op |-> "idle", user |-> ""]
    /\ \E outcome \in {"threw", "empty", "response"} :
          IF outcome = "response"
          THEN /\ data_mutex_ = "free"
               /\ b_budget.append > 0
               /\ \E response \in LLMResponses :
                     LET insight ==
                             [parseLLMResponse(response, main_call.user) EXCEPT
                                 !.insight_type = "recommendation"]
                     IN /\ insights_history_' =
                              storeInsight(insights_history_, insight)
                        /\ Becomes(handleLLMInsight(Analyzer, insight),
                                   "handleLLMInsight", main_call.user, insight)
               /\ b_budget' = [b_budget EXCEPT !.append = @ - 1]
          ELSE /\ UNCHANGED insights_history_
               /\ UNCHANGED analyzer_frame
    /\ UNCHANGED <<analysis_running_, real_time_enabled_, pending_analyses_,
                   overdue, data_mutex_, analysis_thread_>>
    /\ UNCHANGED <<anomaly_callback_, llm_enabled_, user_contexts_,
                   recent_activities, supplied>>
    /\ UNCHANGED behavior_frame

\* the main thread is inside no call of LLMBehaviorAnalyzer
MainIdle == main_call.op = "idle"

\* analyzeActivity calls and insights, counted together, of a run
MaxLoopAppends == 1
\* requestLLMAnalysis calls of a run
MaxLoopRequests == 1
\* addBehaviorData calls of a run
MaxLoopData == 1

\* BehaviorAnalyzer after construction, with its LLMBehaviorAnalyzer
AnalysisInit ==
    /\ UpgradeInit /\ available_update_.version.major = 0
    /\ VersionIdle
    /\ DlpIdle
    /\ BehaviorHolds(Constructed)
    /\ b_budget = [append |-> MaxLoopAppends, update |-> MaxLoopRequests,
                   request |-> MaxLoopData]

AnalysisNext ==
    \/ MainIdle /\ AnalyzeActivity
    \/ MainIdle /\ EnableLLMAnalysis
    \/ MainIdle /\ RequestLLMAnalysis
    \/ MainIdle /\ AddBehaviorData
    \/ MainIdle /\ EnableRealTimeAnalysis
    \/ RecommendBegin
    \/ RecommendFormatted
    \/ RecommendEnd
    \/ IntervalPasses
    \/ LoopStep

AnalysisSpec == AnalysisInit /\ [][AnalysisNext]_vars

\* the analysis thread is scheduled and its provider calls end
AnalysisFair == AnalysisSpec /\ WF_vars(LoopStep)

\* ------------------------------------------------------- DLPMonitor alone
\* addPolicy, removePolicy and setCallback calls of a run
MaxDlpConfigCalls == 1
\* startMonitoring and stopMonitoring calls of a run
MaxDlpSwitches == 3
\* files created, transfers and polling rounds of a run
MaxHappenings == 1

\* the policies in the store when a run starts
PolicyStores ==
    {<< >>} \cup { <<p>> : p \in PolicyInputs }
            \cup { pq \in PolicyInputs \X PolicyInputs : pq[1] # pq[2] }

\* DLPMonitor on its own, after main has configured it
DlpInit ==
    /\ UpgradeInit /\ available_update_.version.major = 0
    /\ VersionIdle
    /\ BehaviorIdle
    /\ \E store \in PolicyStores : \E callback \in BOOLEAN :
          DlpHolds(store, callback,
                   [config |-> MaxDlpConfigCalls, switches |-> MaxDlpSwitches,
                    happenings |-> MaxHappenings])

\* a detached thread that can take a step takes it
DlpSpec == DlpInit /\ [][DlpNext]_vars /\ WF_vars(DlpThreads)

\* checkFileAgainstPolicies applied to a file, for a store of policies
CheckFile ==
    /\ \E file \in Files :
          DlpDone("checkFile", file,
                  checkFileAgainstPolicies(policies_, file), << >>)
    /\ UNCHANGED <<policies_, monitored_paths_, dlp_running_, dlp_callback_,
                   dlp_threads, dlp_budget>>
    /\ UNCHANGED dlp_frame

\* checkContentAgainstPolicies applied to a file, for a store of policies
CheckContent ==
    /\ \E file \in Files :
          DlpDone("checkContent", file,
                  checkContentAgainstPolicies(policies_, file), << >>)
    /\ UNCHANGED <<policies_, monitored_paths_, dlp_running_, dlp_callback_,
                   dlp_threads, dlp_budget>>
    /\ UNCHANGED dlp_frame

FileCheckInit ==
    /\ UpgradeInit /\ available_update_.version.major = 0
    /\ VersionIdle
    /\ BehaviorIdle
    /\ \E store \in PolicyStores : \E callback \in BOOLEAN :
          DlpHolds(store, callback,
                   [config |-> 0, switches |-> 0, happenings |-> 0])

FileCheckSpec == FileCheckInit /\ [][CheckFile \/ CheckContent]_vars


\* ------------------------------------------------------------------ claims
\* positions inside a status-reporting call (between its first and its last
\* updateStatus)
InCall(t) == pc[t] \notin {"idle", "join", "off", "loop", "sleep"}

InstallPcs == {"ins_backup", "ins_extract", "ins_replace", "ins_rollback",
               "ins_rb_restore"}

Reported(tr, s) == \E i \in DOMAIN tr : tr[i] = s

\* the call the caller thread just completed was a downloadUpdate whose
\* transfer delivered a body
DownloadTransferred == ret.op = "downloadUpdate" /\ ret.dl.response # << >>

DownloadedPath == DownloadPath(ret.dl.update.version)

\* C1: at most one upgrade transition sequence is active at any time: the
\* auto-update thread is never between the first and the last status update
\* of a checkForUpdates while the caller thread is between the first and the
\* last status update of one of its calls.
C1_OneSequenceActive == ~(InCall("auto") /\ InCall("caller"))

C3_FailedVerificationNeverInstalled ==
    [][ (ins.archive # << >> /\ exe' # exe)
            => dl_verdict[ins.archive] # "integrity_failed" ]_vars

C3_Witness ==
    /\ ret.op = "installUpdate"
    /\ ret.why = "extract_failed"
    /\ dl_verdict[DownloadPath(available_update_.version)] = "integrity_failed"
    /\ exe = OrigExe

\* the publisher's signature over the artifact is "good"; any other supplied
\* signature does not validate
SignatureValid(signature) == signature = "good"

\* C4: downloadUpdate returns true for a descriptor that supplies a
\* signature only if that signature is valid for the artifact.
C4_SuppliedSignatureMustValidate ==
    (ret.op = "downloadUpdate" /\ ret.result = "true"
        /\ ret.dl.update.signature # "")
    => SignatureValid(ret.dl.update.signature)

\* C5: after a successful downloadUpdate the temp file holds exactly the
\* bytes received, and the digest compared with the descriptor's checksum is
\* the digest of those bytes.
C5_ArtifactIsWhatWasReceived ==
    (ret.op = "downloadUpdate" /\ ret.result = "true")
    => /\ files[DownloadedPath] = ret.dl.response
       /\ calculateChecksum(files[DownloadedPath]) = Digest(ret.dl.response)

\* C6: whenever installUpdate returns false, rollbackUpdate was invoked
\* during the call.
C6_RollbackOnAnyInstallFailure ==
    (ret.op = "installUpdate" /\ ret.result = "false")
    => (ret.rollback /\ Reported(ret.trail, "ROLLBACK"))

\* C7: with backups enabled, installUpdate changes the running executable
\* only after the backup copy of it was completed, and an installUpdate
\* whose backup failed reports Installing then Failed and leaves the
\* executable as it was when the call began.
C7_BackupBeforeMutation ==
    [][ /\ (pc["caller"] \in InstallPcs /\ backup_enabled_ /\ exe' # exe)
              => (ins.backup_done /\ backup_file = ins.exe0)
        /\ (pc["caller"] \in InstallPcs /\ ret'.why = "backup_failed")
              => /\ ret'.result = "false"
                 /\ ret'.trail = <<"INSTALLING", "FAILED">>
                 /\ exe' = ins.exe0 ]_vars

C7_Witness ==
    /\ ret.op = "installUpdate"
    /\ ret.result = "true"
    /\ backup_enabled_
    /\ backup_file = OrigExe
    /\ exe # OrigExe

\* C8 as stated: the update-available callback fires at most once for each
\* version.
C8_CallbackOncePerVersion == \A p \in Paths : cb_count[p] <= 1

\* C8 amended: every checkForUpdates call that finds a newer version and
\* stores its descriptor fires the update-available callback exactly once,
\* for that version, when a callback is registered; nothing else fires it.
C8_CallbackOncePerDiscovery ==
    [][ IF \E t \in Threads : /\ pc[t] = "chk_store"
                              /\ pc'[t] # "chk_store"
                              /\ status_' = "IDLE"
        THEN cb_count' =
               [cb_count EXCEPT ![DownloadPath(available_update_'.version)] =
                                    @ + (IF cb_registered THEN 1 ELSE 0)]
        ELSE cb_count' = cb_count ]_vars

C8_Witness == \E p \in Paths : cb_count[p] = 2

\* C9: a downloadUpdate that ends ready reported Verifying on its way.
C9_VerifyingBeforeReady ==
    (ret.op = "downloadUpdate" /\ ret.result = "true")
    => Reported(ret.trail, "VERIFYING")

\* C10: installUpdate is in progress (status Installing was entered) only
\* when the latest downloadUpdate for the version it installs completed and
\* verified.
C10_InstallingOnlyWhenReady ==
    pc["caller"] \in InstallPcs => dl_verdict[ins.archive] = "verified"

\* installUpdate has returned after its rollbackUpdate reported Failed, and
\* the caller thread has made no call since
RollbackFailedUnattended ==
    /\ pc["caller"] = "idle"
    /\ ret.op = "installUpdate"
    /\ ret.rollback
    /\ ret.trail[Len(ret.trail)] = "FAILED"

\* C11: once installUpdate has returned after the rollback that followed a
\* failed executable replacement failed too, the status is Failed and stays
\* Failed until the operator makes a call, also while the auto-update loop
\* is running.
C11_FailedUntilOperatorActs ==
    RollbackFailedUnattended => status_ = "FAILED"

PublicCalls == {"checkForUpdates", "downloadUpdate", "installUpdate",
                "rollbackUpdate"}

\* C12: checkForUpdates, downloadUpdate, installUpdate and rollbackUpdate
\* return true or false, no exception leaves them, and a call that failed
\* on a filesystem error reported Failed and returned false.
C12_NoExceptionEscapes ==
    ret.op \in PublicCalls
    => /\ ret.result \in {"true", "false"}
       /\ ret.why = "replace_threw"
             => (ret.result = "false" /\ status_ = "FAILED")

\* the steps of the auto-update thread
AutoThread ==
    \/ CheckBegin("auto")
    \/ CheckFetch("auto")
    \/ CheckStore("auto")
    \/ AutoLoopSleep
    \/ AutoLoopExit

\* the two threads, the auto-update thread being scheduled whenever it can
\* run: sleep_for returns and a runnable thread gets the processor
FairSpec == Init /\ [][Next]_vars /\ WF_vars(AutoThread)

\* the bounds of the model let the loop make one more check
LoopMayCheck ==
    checks < MaxAutoChecks /\ ops + checks < MaxOpsWithAuto

\* C13: once stopAutoUpdateCheck has returned the auto-update thread has
\* ended and makes no check; while the running flag is set the loop does
\* not end, every sleep is followed by a look at the flag, and after a check
\* that ended in Failed the loop goes on to its next check.
C13_StopJoinsLoopRetries ==
    /\ [](ret.op = "stopAutoUpdateCheck" => pc["auto"] = "off")
    /\ [][ /\ ret.op = "stopAutoUpdateCheck" => checks' = checks
           /\ (pc["auto"] = "loop" /\ auto_update_running_)
                 => pc'["auto"] \in {"loop", "chk_fetch"}
           /\ pc["auto"] = "sleep" => pc'["auto"] \in {"sleep", "loop"} ]_vars
    /\ (pc["auto"] = "sleep" /\ auto_last = "FAILED")
          ~> (pc["auto"] = "chk_fetch" \/ ~auto_update_running_ \/ ~LoopMayCheck)

C13_Witness ==
    /\ pc["caller"] = "join"
    /\ pc["auto"] = "chk_fetch"
    /\ auto_last = "FAILED"

Core(v) == <<v.major, v.minor, v.patch>>

\* C14: for the versions compared exactly one of a<b, a==b, a>b holds, a==b
\* holds exactly when (major, minor, patch) agree, < is transitive, a<=b is
\* "not a>b" and a>=b is "not a<b", and rewriting build tags and release
\* dates leaves every result as it was.
C14_VersionTotalOrder ==
    cmp.done =>
       /\ \/ cmp.lt /\ ~cmp.eq /\ ~cmp.gt
          \/ ~cmp.lt /\ cmp.eq /\ ~cmp.gt
          \/ ~cmp.lt /\ ~cmp.eq /\ cmp.gt
       /\ cmp.eq <=> (Core(va) = Core(vb))
       /\ cmp.ne <=> ~cmp.eq
       /\ (cmp.lt /\ cmp.bc_lt) => cmp.ac_lt
       /\ cmp.le <=> ~cmp.gt
       /\ cmp.ge <=> ~cmp.lt
       /\ cmp = cmp_first

C14_Witness ==
    /\ cmp.done
    /\ va.build = "dev" /\ vb.build = "" /\ vc.release_date = "2025-01-06"
    /\ cmp.lt /\ cmp.bc_lt /\ cmp.ac_lt

\* the step just taken was an analyzeActivity call
AnalyzeActivityDone ==
    arrivals' = arrivals + 1 /\ b_last'.op = "analyzeActivity"

\* the step just taken fused an LLM insight
InsightFused ==
    arrivals' = arrivals + 1 /\ b_last'.op = "handleLLMInsight"

\* C15: the risk score of every user profile lies in [0, 1].
C15_RiskScoreInUnitInterval ==
    \A u \in Users :
        user_profiles_[u].exists
        => /\ ~Less(user_profiles_[u].risk_score, Zero)
           /\ ~Less(One, user_profiles_[u].risk_score)

\* C16: the global history holds the latest min(1000, arrivals) patterns
\* appended, oldest first.
C16_HistoryBoundedFifo ==
    /\ Len(pattern_history_) =
          (IF arrivals > HISTORY_CAP THEN HISTORY_CAP ELSE arrivals)
    /\ \A i \in 1 .. Len(pattern_history_) :
          pattern_history_[i].timestamp = arrivals - Len(pattern_history_) + i

C16_Witness ==
    /\ arrivals = HISTORY_CAP + 2
    /\ Len(pattern_history_) = HISTORY_CAP
    /\ pattern_history_[1].timestamp = 3
    /\ pattern_history_[HISTORY_CAP].source = "llm"

\* C17: the recent-pattern list of a profile never grows beyond a cap; the
\* cap tried is the largest the analyzer applies anywhere, that of the
\* global history.
C17_RecentPatternsCapped ==
    \A u \in Users : Len(user_profiles_[u].recent_patterns) <= HISTORY_CAP

\* the score of the claim: (0.8 suspicious + 0.4 anomalous) / considered over
\* the last 10 patterns of a list, at most 1, and 0 for an empty list
LastTenScore(patterns) ==
    LET considered == IF Len(patterns) > RISK_WINDOW THEN RISK_WINDOW
                      ELSE Len(patterns)
        first == Len(patterns) - considered + 1
        count(t) == Cardinality({ i \in first .. Len(patterns) :
                                    patterns[i].pattern_type = t })
        score == <<8 * count("suspicious") + 4 * count("anomalous"),
                   10 * considered>>
    IN IF considered = 0 THEN Zero
       ELSE IF Less(One, score) THEN One ELSE score

\* C18: the confidence analyzeActivity computes is the weighted count over
\* the 10 patterns recorded last for the user before the call.
C18_ScoreOverLastTen ==
    [][ AnalyzeActivityDone
        => Same(b_last'.pattern.confidence_score,
                LastTenScore(user_profiles_[b_last'.user].recent_patterns))
      ]_vars

\* C19: the pattern analyzeActivity creates is suspicious when its
\* confidence is above 0.7, anomalous when it is above 0.5 and at most 0.7,
\* normal otherwise; the user's risk score becomes that confidence; the
\* anomaly callback runs exactly when the pattern is not normal and a
\* callback is registered.
C19_ClassifyAndNotify ==
    [][ AnalyzeActivityDone
        => LET p == b_last'.pattern
               c == b_last'.pattern.confidence_score
           IN /\ Less(<<7, 10>>, c) => p.pattern_type = "suspicious"
              /\ (Less(<<5, 10>>, c) /\ ~Less(<<7, 10>>, c))
                    => p.pattern_type = "anomalous"
              /\ ~Less(<<5, 10>>, c) => p.pattern_type = "normal"
              /\ user_profiles_'[b_last'.user].risk_score = c
              /\ b_last'.fired
                    <=> (p.pattern_type # "normal" /\ anomaly_callback_)
      ]_vars

C19_Witness ==
    /\ b_last.op = "analyzeActivity"
    /\ b_last.pattern.pattern_type = "anomalous"
    /\ b_last.fired

\* C20: a user for whom an insight can be produced has a profile, and the
\* fusion of an insight for user u appends its pattern to the global
\* history and to u's recent patterns and makes u's risk score the larger
\* of the score before and the insight's confidence.
C20_InsightFusedIntoProfile ==
    /\ [](\A u \in user_contexts_ : user_profiles_[u].exists)
    /\ [][ InsightFused
           => LET u == b_last'.user
                  p == b_last'.pattern
                  prior == user_profiles_[u].risk_score
              IN /\ p.user = u /\ p.source = "llm"
                 /\ pattern_history_'[Len(pattern_history_')] = p
                 /\ user_profiles_'[u].recent_patterns =
                       Append(user_profiles_[u].recent_patterns, p)
                 /\ user_profiles_'[u].risk_score =
                       (IF Less(prior, p.confidence_score)
                        THEN p.confidence_score ELSE prior)
         ]_vars

\* an insight was fused for a user with no analyzeActivity call before it
C20_Witness ==
    /\ b_last.op = "handleLLMInsight"
    /\ b_last.user = "bob"
    /\ \A i \in 1 .. Len(pattern_history_) :
          pattern_history_[i].user = "bob" => pattern_history_[i].source = "llm"
    /\ Len(user_profiles_["bob"].recent_patterns) = 2
    /\ user_profiles_["bob"].risk_score = <<4, 5>>

SameMetricRun(u) ==
    Cardinality({ i \in 1 .. Len(user_profiles_[u].recent_patterns) :
                    user_profiles_[u].recent_patterns[i].source = "native" })

\* C22: after 10 or more analyzeActivity calls in a row with the same
\* metrics, the value under the key is less than 1% of the baseline away
\* from the baseline, and isAnomalous returns false, whatever the baseline
\* was before the run.
C22_SameMetricsConverge ==
    \A u \in Users : \A metrics \in MetricInputs :
        (user_profiles_[u].exists /\ SameMetricRun(u) >= 10)
        => LET baseline == user_profiles_[u].baseline_metrics
           IN /\ baseline # NoBaseline
              /\ ~DeviationAbove(metrics, baseline[1], 1, 100)
              /\ ~DeviationAbove(metrics, baseline[2], 1, 100)
              /\ isAnomalous(metrics, baseline) = {FALSE}

\* the filename extension of a file: the last piece of its name
Extension(file) == <<file.name[Len(file.name)]>>

\* C23: checkFileAgainstPolicies is true exactly when some policy has the
\* file's filename extension among its extensions, or a restricted path
\* that the file's path starts with, or a content pattern that matches what
\* reading the file gives.
C23_FileMatchesSomePolicy ==
    dlp_last.op = "checkFile"
    => LET file == dlp_last.subject
       IN dlp_last.result <=>
             \E i \in 1 .. Len(policies_) :
                \/ Extension(file) \in policies_[i].file_extensions
                \/ \E path \in policies_[i].restricted_paths :
                      Find(FullPath(file), path) = 0
                \/ \E pattern \in policies_[i].content_patterns :
                      Find(file.content, pattern) # -1

\* C24: with a callback set, monitoring started (the filesystem watch past
\* its setup) and the one policy with the extension .pdf, block_transfer
\* and no restricted path, the creation of /tmp/report.pdf leads to a
\* file_access event with blocked = true for it.
C24_PdfCreationReported ==
    ( /\ dlp_last.op = "created"
      /\ dlp_last.subject.dir = <<"/tmp">>
      /\ dlp_last.subject.name = <<"report", ".pdf">>
      /\ dlp_callback_ /\ dlp_running_
      /\ \A g \in DOMAIN dlp_threads : dlp_threads[g].fs # "init"
      /\ Len(policies_) = 1 /\ policies_[1].name = "documents" )
    ~> ( /\ dlp_last.op = "notified"
         /\ \E i \in 1 .. Len(dlp_last.events) :
               /\ dlp_last.events[i].type = "file_access"
               /\ dlp_last.events[i].subject = <<"/tmp", "/", "report", ".pdf">>
               /\ dlp_last.events[i].blocked )

\* C25: no event of the polling fallback has blocked = true.
C25_PollingNeverBlocks ==
    dlp_last.op = "polled"
    => \A i \in 1 .. Len(dlp_last.events) : ~dlp_last.events[i].blocked

\* C26: a network watch whose kernel probe did not come up (init failed, a
\* kprobe did not attach, the event buffer did not open) runs the polling
\* fallback until it ends.
C26_ProbeFailureFallsBack ==
    (dlp_last.op = "bring_up"
     /\ dlp_last.subject.outcome \in {"init_failed", "tcp_attach_failed",
                                      "udp_attach_failed", "buffer_failed"}
     /\ dlp_threads[dlp_last.subject.threads].net # "done")
    => dlp_threads[dlp_last.subject.threads].net = "fallback"

\* C27: when stopMonitoring has returned, the watch loops that were started
\* have finished.
C27_StopWaitsForLoops ==
    dlp_last.op = "stopMonitoring"
    => \A g \in DOMAIN dlp_threads :
          dlp_threads[g].fs = "done" /\ dlp_threads[g].net = "done"

\* C28: with a callback set, a transfer handed to checkNetworkTransfer is
\* reported exactly when it is larger than 1MB, or its destination contains
\* a restricted destination of some policy, or its port is one of 21, 22,
\* 25, 110, 143, 993, 995.
C28_TransferReportedIffViolation ==
    (dlp_last.op = "transfer" /\ dlp_callback_)
    => LET transfer == dlp_last.subject
       IN dlp_last.events # << >> <=>
             \/ transfer.size > 1024 * 1024
             \/ \E i \in 1 .. Len(policies_) :
                   \E restricted_dest \in policies_[i].restricted_paths :
                       Find(Destination(transfer), restricted_dest) # -1
             \/ transfer.dport \in {21, 22, 25, 110, 143, 993, 995}

\* C29: one transfer handed to checkNetworkTransfer causes at most one
\* callback invocation, however many policies are in the store.
C29_OneEventPerTransfer ==
    dlp_last.op = "transfer" => Len(dlp_last.events) <= 1

\* C30: the recent-activity list of every user holds the latest
\* min(100, handed in) activities handed in for the user, in the order in
\* which they were handed in.
C30_RecentActivitiesBoundedFifo ==
    \A u \in Users :
        LET activities == recent_activities[u]
        IN /\ Len(activities) =
                 (IF supplied[u] > ACTIVITY_CAP THEN ACTIVITY_CAP
                  ELSE supplied[u])
           /\ \A i \in 1 .. Len(activities) :
                 activities[i] = supplied[u] - Len(activities) + i

\* one analyzeUserBehavior call handed in more than 100 activities for a
\* user whose list held 99
C30_Witness ==
    /\ supplied["alice"] = 2 * ACTIVITY_CAP
    /\ Len(recent_activities["alice"]) = ACTIVITY_CAP
    /\ recent_activities["alice"][1] = ACTIVITY_CAP + 1

\* C35: when analyzeActivity is called for a user with more than 10
\* recorded patterns of which the 10 counted are all suspicious, the
\* confidence it computes is 0.8.
C35_DenominatorIsCountConsidered ==
    [][ AnalyzeActivityDone
        => LET patterns == user_profiles_[b_last'.user].recent_patterns
           IN (/\ Len(patterns) > RISK_WINDOW
               /\ \A i \in 1 .. RISK_WINDOW :
                     patterns[i].pattern_type = "suspicious")
              => Same(b_last'.pattern.confidence_score, <<8, 10>>)
      ]_vars

PatternsOf(user) ==
    LET IsOf(pattern) == pattern.user = user
    IN SelectSeq(pattern_history_, IsOf)

\* C39: getRecentPatterns(user, limit) with limit >= 0 returns the last
\* min(limit, number of the user's patterns) patterns of the user in the
\* global history.
C39_ReturnsLastLimitPatterns ==
    (b_last.op = "getRecentPatterns" /\ b_last.limit >= 0)
    => LET of_user == PatternsOf(b_last.user)
           n == IF b_last.limit < Len(of_user) THEN b_last.limit
                ELSE Len(of_user)
       IN b_last.returned = SubSeq(of_user, Len(of_user) - n + 1, Len(of_user))

\* the content holds one of the fixed keywords, in any case
HoldsKeyword(content) ==
    \E k \in 1 .. Len(content) :
        ToLower(content[k]) \in {"password", "secret", "confidential",
                                 "internal", "api_key", "token"}

\* C40: the content check matches a file exactly when the file opens, holds
\* something, and either a content pattern of some policy matches what it
\* holds, or some policy has a content pattern and the file holds one of
\* the fixed keywords in any case.
C40_ContentMatch ==
    dlp_last.op = "checkContent"
    => LET file == dlp_last.subject
           patterns == UNION { policies_[i].content_patterns :
                                 i \in 1 .. Len(policies_) }
       IN dlp_last.result <=>
             /\ file.readable
             /\ file.content # << >>
             /\ \/ \E pattern \in patterns : Find(file.content, pattern) # -1
                \/ patterns # {} /\ HoldsKeyword(file.content)

\* a file that holds SECRET matched under a policy whose one content
\* pattern does not occur in it
C40_Witness ==
    /\ dlp_last.op = "checkContent"
    /\ dlp_last.subject.content = <<"my", "SECRET">>
    /\ Len(policies_) = 1 /\ policies_[1].content_patterns = {<<"ssn">>}
    /\ dlp_last.result

\* C38: at most one filesystem watch loop and at most one network watch
\* loop are running at any time.
C38_OneLoopOfEachKind ==
    /\ Cardinality({ g \in DOMAIN dlp_threads :
                       dlp_threads[g].fs \in {"loop", "read", "check"} }) <= 1
    /\ Cardinality({ g \in DOMAIN dlp_threads :
                       dlp_threads[g].net \in {"probe", "fallback"} }) <= 1

\* C33: while the analysis loop has a provider call in flight, the analysis
\* thread does not hold data_mutex_, so addBehaviorData and
\* analyzeUserBehavior are not kept waiting by the call
C33_ProviderCallOutsideLock ==
    analysis_thread_.at = "provider" => data_mutex_ # "analysis"

\* C37: every analysis cycle comes to its end with data_mutex_ released,
\* also after a provider returned a response and the insight was to be
\* stored
C37_CycleEndsAndUnlocks ==
    InCycle ~> (~InCycle /\ data_mutex_ = "free")

\* C31: after the analysis of one user failed within a cycle, the cycle
\* goes on to its end, which it reaches only when every context was
\* visited and every due user analysed, and the loop keeps running
C31_FailureSkipsOneUser ==
    (InCycle /\ analysis_thread_.failed # {})
        ~> (analysis_thread_.at \in {"asleep", "while"})

\* C32: a caller that reads the per-user contexts inside
\* generateSecurityRecommendations holds data_mutex_
C32_ContextsReadUnderLock ==
    main_call.op = "format" => data_mutex_ = "main"

\* C34 (DLPMonitor): while a filesystem watch is walking policies_, no
\* addPolicy or removePolicy call changes policies_
C34_PoliciesStableUnderWatch ==
    [][(\E g \in DOMAIN dlp_threads : dlp_threads[g].fs = "check")
          => policies_' = policies_]_vars
====
